---- MODULE Spec2Model ----
(***************************************************************************)
(* A model of the discrete-event simulation engine of the blockchain       *)
(* visualizer: the EventQueue of scripts/simulation.js and the BlockChain  *)
(* ledger of scripts/nodeMethods.js.                                       *)
(*                                                                         *)
(* Spec      : the worker's message handlers and the EventQueue            *)
(* SpecChain : one ledger under BlockChain.add / BlockChain.tidy           *)
(***************************************************************************)
EXTENDS Integers, Sequences, FiniteSets, TLC

(***************************************************************************)
(* Generic helpers                                                         *)
(***************************************************************************)
RECURSIVE FlattenFrom(_, _)
FlattenFrom(ss, i) ==
    IF i > Len(ss) THEN <<>> ELSE ss[i] \o FlattenFrom(ss, i + 1)

Flatten(ss) == FlattenFrom(ss, 1)

\* A sequence given as a function on 1..n, as the tuple of its elements.
AsSeq(f) == SubSeq(f, 1, Len(f))

Front(s) == SubSeq(s, 1, Len(s) - 1)

Last(s) == s[Len(s)]

RemoveAt(s, k) == SubSeq(s, 1, k - 1) \o SubSeq(s, k + 1, Len(s))

Min(a, b) == IF a <= b THEN a ELSE b

SetMin(S) == CHOOSE x \in S : \A y \in S : x <= y

SetMax(S) == CHOOSE x \in S : \A y \in S : x >= y

Range(s) == {s[i] : i \in 1..Len(s)}

(***************************************************************************)
(* Blocks (nodeMethods.js, class Block).  The local id that #newBlock      *)
(* draws is a fresh UUID per copy and takes no part in any comparison the  *)
(* ledger makes between blocks, so a block is its id, previousId and       *)
(* trust.  previousId === undefined is Undefined.                          *)
(***************************************************************************)
Undefined == 0

MaxId == 3

\* Trust is a fraction <<numerator, denominator>> in lowest terms.
RECURSIVE Gcd(_, _)
Gcd(a, b) == IF b = 0 THEN a ELSE Gcd(b, a % b)

Fraction(n, d) == << n \div Gcd(n, d), d \div Gcd(n, d) >>

\* trust = 1
FullTrust == Fraction(1, 1)

NoTrust == Fraction(0, 1)

Block(id, previousId) == [id |-> id, previousId |-> previousId, trust |-> FullTrust]

\* The blocks a ledger is offered: a block points to a block created before
\* it (a smaller id) or to nothing.
Blocks == {Block(i, p) : i \in 1..MaxId, p \in 0..MaxId} \cap
          {b \in [id : 1..MaxId, previousId : 0..MaxId, trust : {FullTrust}] :
              b.previousId < b.id}

(***************************************************************************)
(* BlockChain (nodeMethods.js, class BlockChain): a spine of blocks and    *)
(* the branches attached at its end.                                       *)
(***************************************************************************)
BlockChain(blocks, branches) == [blocks |-> blocks, branches |-> branches]

EmptyChain == BlockChain(<<>>, <<>>)

RECURSIVE chainAt(_, _)
chainAt(chain, indexes) ==
    IF indexes = <<>> THEN chain
    ELSE chainAt(chain.branches[Head(indexes)], Tail(indexes))

RECURSIVE replaceAt(_, _, _)
replaceAt(chain, indexes, new) ==
    IF indexes = <<>> THEN new
    ELSE [chain EXCEPT !.branches[Head(indexes)] =
                            replaceAt(@, Tail(indexes), new)]

\* entries(): the blocks of the spine, then those of every branch in
\* branch order, each with the indexes of the chain that holds it.
RECURSIVE entries(_)
entries(chain) ==
    AsSeq([i \in 1..Len(chain.blocks) |->
        [chainIndexes |-> <<>>, localIndex |-> i, block |-> chain.blocks[i]]])
    \o Flatten(AsSeq([j \in 1..Len(chain.branches) |->
        LET sub == entries(chain.branches[j])
        IN  AsSeq([k \in 1..Len(sub) |->
                [sub[k] EXCEPT !.chainIndexes = <<j>> \o @]])]))

\* branchEntries(): this chain, then every nested branch, depth first.
RECURSIVE branchEntries(_)
branchEntries(chain) ==
    <<<<>>>> \o Flatten(AsSeq([j \in 1..Len(chain.branches) |->
        LET sub == branchEntries(chain.branches[j])
        IN  AsSeq([k \in 1..Len(sub) |-> <<j>> \o sub[k]])]))

\* findAll({id, previousId}): an identifier left undefined matches anything.
Matches(block, id, previousId) ==
    /\ (id = Undefined \/ block.id = id)
    /\ (previousId = Undefined \/ block.previousId = previousId)

findAll(chain, id, previousId) ==
    SelectSeq(entries(chain), LAMBDA e : Matches(e.block, id, previousId))

has(chain, block, amount) ==
    Len(findAll(chain, block.id, block.previousId)) >= amount

RECURSIVE getStarts(_)
getStarts(chain) ==
    IF Len(chain.blocks) > 0 THEN <<chain.blocks[1]>>
    ELSE Flatten(AsSeq([j \in 1..Len(chain.branches) |->
            getStarts(chain.branches[j])]))

\* getStartBranches(), as the indexes of the chains it returns.
RECURSIVE getStartBranches(_)
getStartBranches(chain) ==
    IF Len(chain.blocks) > 0 THEN <<<<>>>>
    ELSE Flatten(AsSeq([j \in 1..Len(chain.branches) |->
            LET sub == getStartBranches(chain.branches[j])
            IN  AsSeq([k \in 1..Len(sub) |-> <<j>> \o sub[k]])]))

removeBranch(chain, indexes) ==
    LET scope == chainAt(chain, Front(indexes))
    IN  replaceAt(chain, Front(indexes),
            [scope EXCEPT !.branches = RemoveAt(@, Last(indexes))])

\* The (id, previousId) key tidy builds as `${id}${previousId}`.
Key(block) == <<block.id, block.previousId>>

FirstIndex(s, Test(_)) ==
    LET hits == {i \in 1..Len(s) : Test(s[i])}
    IN  IF hits = {} THEN 0 ELSE SetMin(hits)

(***************************************************************************)
(* BlockChain.tidy (nodeMethods.js): the rules of one pass, each returning *)
(* the chain it leaves and whether it changed anything.                    *)
(***************************************************************************)
Result(chain, effect) == [chain |-> chain, effect |-> effect]

\* "Remove chains that contain no blocks": the first empty nested branch.
removeEmptyChain(chain) ==
    LET all == branchEntries(chain)
        k == FirstIndex(all, LAMBDA indexes :
                /\ Len(indexes) > 0
                /\ Len(chainAt(chain, indexes).blocks) = 0
                /\ Len(chainAt(chain, indexes).branches) = 0)
    IN  IF k = 0 THEN Result(chain, FALSE)
        ELSE Result(removeBranch(chain, all[k]), TRUE)

\* "Remove unneccessary branching points": the first chain with exactly one
\* branch takes over that branch's blocks and branches.
streamlineBranch(chain) ==
    LET all == branchEntries(chain)
        k == FirstIndex(all, LAMBDA indexes :
                Len(chainAt(chain, indexes).branches) = 1)
    IN  IF k = 0 THEN Result(chain, FALSE)
        ELSE LET branch == chainAt(chain, all[k])
             IN  Result(replaceAt(chain, all[k],
                        BlockChain(branch.blocks \o branch.branches[1].blocks,
                                   branch.branches[1].branches)), TRUE)

\* The keys of the successors already in place after an entry.
currentBranches(chain, entry) ==
    LET scope == chainAt(chain, entry.chainIndexes)
    IN  IF entry.localIndex = Len(scope.blocks)
        THEN {Key(b) : b \in Range(Flatten(AsSeq(
                [j \in 1..Len(scope.branches) |-> getStarts(scope.branches[j])])))}
        ELSE {Key(scope.blocks[entry.localIndex + 1])}

\* The first block that points at the entry's block without being one of
\* its successors (a sequence of one entry, or of none).
possibleBranch(chain, entry) ==
    LET found == findAll(chain, Undefined, entry.block.id)
        k == FirstIndex(found, LAMBDA e :
                Key(e.block) \notin currentBranches(chain, entry))
    IN  IF k = 0 THEN <<>> ELSE <<found[k]>>

\* connectBlocks, the body of the inner loop: the chain from the block at
\* `from` on is copied and becomes a new branch behind the entry's block;
\* if that block is inside a spine, the spine is split there.
graft(chain, entry, from) ==
    LET source == chainAt(chain, from.chainIndexes)
        scope == chainAt(chain, entry.chainIndexes)
        newChain == BlockChain(
            SubSeq(source.blocks, from.localIndex, Len(source.blocks)),
            source.branches)
    IN  IF entry.localIndex = Len(scope.blocks)
        THEN Result(replaceAt(chain, entry.chainIndexes,
               [scope EXCEPT !.branches = Append(@, newChain)]), TRUE)
        ELSE Result(replaceAt(chain, entry.chainIndexes,
               BlockChain(SubSeq(scope.blocks, 1, entry.localIndex),
                   << BlockChain(SubSeq(scope.blocks, entry.localIndex + 1,
                                        Len(scope.blocks)),
                                 scope.branches),
                      newChain >>)), TRUE)

connectAt(chain, all, k) ==
    IF k = 0 THEN Result(chain, FALSE)
    ELSE graft(chain, all[k], possibleBranch(chain, all[k])[1])

connectFirst(chain, all) ==
    connectAt(chain, all,
              FirstIndex(all, LAMBDA e : Len(possibleBranch(chain, e)) > 0))

\* "Connect blocks that point to each other": the first entry with such a
\* block gets a copy of the chain from that block on as a new branch.
connectBlocks(chain) == connectFirst(chain, entries(chain))

\* How many leading blocks of a start branch are present at least twice.
foundElsewhere(chain, branch) ==
    LET missing == {i \in 1..Len(branch.blocks) : ~has(chain, branch.blocks[i], 2)}
    IN  IF missing = {} THEN Len(branch.blocks) ELSE SetMin(missing) - 1

\* One result after another: the later chain, either effect.
Then(first, second) == Result(second.chain, first.effect \/ second.effect)

\* removeUnbased: how many leading blocks a start branch loses.
unbasedIndex(chain, branch) ==
    IF branch.blocks[1].previousId = Undefined THEN 0
    ELSE foundElsewhere(chain, branch)

\* removeUnbased: branch.blocks.splice(0, index)
trimStart(chain, indexes, index) ==
    IF index = 0 THEN chain
    ELSE replaceAt(chain, indexes,
           [chainAt(chain, indexes) EXCEPT !.blocks = SubSeq(@, index + 1, Len(@))])

\* "Remove unbased branches": every start branch whose first block points
\* outside loses its leading blocks that exist elsewhere, one start branch
\* after the other.
RECURSIVE removeUnbased(_, _)
RECURSIVE removeFrom(_, _, _)
removeFrom(chain, startBranches, index) ==
    Then(Result(chain, index > 0),
         removeUnbased(trimStart(chain, Head(startBranches), index),
                       Tail(startBranches)))

removeUnbased(chain, startBranches) ==
    IF startBranches = <<>> THEN Result(chain, FALSE)
    ELSE removeFrom(chain, startBranches,
           unbasedIndex(chain, chainAt(chain, Head(startBranches))))

\* The constructor destructures { blocks = [], branches = [] } from its one
\* argument: a property the argument lacks takes the default.
Construct(data) ==
    BlockChain(IF "blocks" \in DOMAIN data THEN data.blocks ELSE <<>>,
               IF "branches" \in DOMAIN data THEN data.branches ELSE <<>>)

\* combineBranches, the while loop: how many leading blocks of `branch`
\* carry the id of the first block of `otherBranch`.
blockIndex(branch, otherBranch) ==
    IF Len(otherBranch.blocks) = 0 THEN 0
    ELSE LET differs == {i \in 1..Len(branch.blocks) :
                            branch.blocks[i].id # otherBranch.blocks[1].id}
         IN  IF differs = {} THEN Len(branch.blocks) ELSE SetMin(differs) - 1

\* combineBranches, the do-while loop on one chain: the first pair of
\* branches (index < otherIndex) with blockIndex > 0.  The new branch is
\* constructed from the block that branch.blocks.shift() returns, with the
\* two branches as a second argument the constructor does not have; it is
\* pushed and the two branches are cleared.
RECURSIVE combineSiblings(_)
combineSiblings(chain) ==
    LET n == Len(chain.branches)
        pairs == {p \in (1..n) \X (1..n) :
                    /\ p[1] < p[2]
                    /\ blockIndex(chain.branches[p[1]], chain.branches[p[2]]) > 0}
    IN  IF pairs = {} THEN Result(chain, FALSE)
        ELSE LET first == CHOOSE p \in pairs : \A q \in pairs :
                            \/ p[1] < q[1]
                            \/ (p[1] = q[1] /\ p[2] <= q[2])
                 newBranch == Construct(Head(chain.branches[first[1]].blocks))
                 next == [chain EXCEPT !.branches =
                            AsSeq([k \in 1..(n + 1) |->
                                IF k = n + 1 THEN newBranch
                                ELSE IF k \in {first[1], first[2]} THEN EmptyChain
                                ELSE chain.branches[k]])]
             IN  Result(combineSiblings(next).chain, TRUE)

RECURSIVE combineBranches(_)
combineBelow(here, below) ==
    Result([here.chain EXCEPT !.branches =
                AsSeq([j \in 1..Len(below) |-> below[j].chain])],
           here.effect \/ \E j \in 1..Len(below) : below[j].effect)

combineEach(here) ==
    combineBelow(here, AsSeq([j \in 1..Len(here.chain.branches) |->
                               combineBranches(here.chain.branches[j])]))

\* combineBranches(chain): the chain's own branches, then each branch.
combineBranches(chain) == combineEach(combineSiblings(chain))

\* A tidy without its fourth rule.
unbasedNever(chain) == Result(chain, FALSE)

\* tidy, rule 4: only on a chain without blocks of its own.
unbased(chain) ==
    IF Len(chain.blocks) = 0
    THEN removeUnbased(chain, getStartBranches(chain))
    ELSE Result(chain, FALSE)

\* A pass without its second rule.
rule2Never(done) == done

rule2(done) == Then(done, streamlineBranch(done.chain))

\* A pass without its third rule.
rule3Never(done) == done

rule3(done) == Then(done, connectBlocks(done.chain))

rule4(done) == Then(done, unbased(done.chain))

rule5(done) == Then(done, combineBranches(done.chain))

\* One pass of the do-while loop of tidy.
tidyPass(chain) == rule5(rule4(rule3(rule2(removeEmptyChain(chain)))))

MaxReruns == 200

\* A tree that a pass keeps doubling outgrows the memory of the engine long
\* before the 200th pass: a call whose tree has grown by more than this many
\* blocks between two passes ends in a fault.
MaxHeld == 4

\* Op applied to a value that is worked out once.
Bind(value, Op(_)) == CHOOSE result \in {Op(v) : v \in {value}} : TRUE

\* tidy: passes until one has no effect; the pass after MaxReruns throws
\* "Infinite loop detected when tidying a blockchain".  The loop is kept as
\* the chain, how many passes have been run, whether the last pass had an
\* effect and whether the loop threw.
\* A loop that ends after its first pass.
rerunNever(pass, reruns) ==
    [chain |-> pass.chain, threw |-> FALSE, passes |-> reruns + 1,
     effect |-> FALSE]

\* A loop that runs a second pass whether or not the first had an effect.
rerunOnce(pass, reruns) ==
    [chain |-> pass.chain, threw |-> FALSE, passes |-> reruns + 1,
     effect |-> pass.effect \/ reruns = 0]

\* while(effect)
rerun(pass, reruns) ==
    [chain |-> pass.chain, threw |-> FALSE, passes |-> reruns + 1,
     effect |-> pass.effect]

\* One turn of the do-while loop: reruns++, the throw when reruns > 200,
\* else the pass and the while condition.
\* `held` is the number of blocks in the tree when tidy was called.
tidyTurn(loop, held) ==
    IF ~loop.effect THEN loop
    ELSE IF \/ loop.passes + 1 > MaxReruns
            \/ Len(entries(loop.chain)) > held + MaxHeld
         THEN [loop EXCEPT !.threw = TRUE, !.effect = FALSE]
         ELSE Bind(tidyPass(loop.chain), LAMBDA pass : rerun(pass, loop.passes))

\* So many turns of the loop: the first half of them, then the rest.
RECURSIVE tidyFrom(_, _, _)
tidyFrom(loop, turns, held) ==
    IF ~loop.effect \/ turns = 0 THEN loop
    ELSE IF turns = 1 THEN tidyTurn(loop, held)
    ELSE Bind(tidyFrom(loop, turns \div 2, held),
              LAMBDA half : tidyFrom(half, turns - turns \div 2, held))

\* The loop from its start to its end: MaxReruns passes at most, and the
\* turn that throws.
tidy(chain) ==
    Bind(tidyFrom([chain |-> chain, threw |-> FALSE, passes |-> 0,
                   effect |-> TRUE], MaxReruns + 1, Len(entries(chain))),
         LAMBDA loop : [chain |-> loop.chain, threw |-> loop.threw,
                        passes |-> loop.passes])

\* An add that appends the new block to the spine.
addToSpine(chain, block) ==
    BlockChain(Append(chain.blocks, block), chain.branches)

\* add: the old chain and the new block become the two branches of an
\* empty spine, and tidy puts the block in place.
addUntidy(chain, block) ==
    BlockChain(<<>>, << BlockChain(chain.blocks, chain.branches),
                        BlockChain(<<block>>, <<>>) >>)

add(chain, block) == tidy(addUntidy(chain, block))

\* The (id, previousId) pairs present in a chain.
Pairs(chain) == {Key(e.block) : e \in Range(entries(chain))}


(***************************************************************************)
(* Trust aggregation (simulation.js: #handleBlockchainEvents) and          *)
(* BlockChain.trimBase (nodeMethods.js)                                    *)
(***************************************************************************)
MaxHolders == 2

MaxReceived == 3

\* The trust a collaborator gives a block.
TrustLevels == {NoTrust, FullTrust}

Plus(a, b) == Fraction(a[1] * b[2] + b[1] * a[2], a[2] * b[2])

AtLeast(a, b) == a[1] * b[2] >= b[1] * a[2]

RECURSIVE SumFrom(_, _)
SumFrom(numbers, i) ==
    IF i > Len(numbers) THEN NoTrust
    ELSE Plus(numbers[i], SumFrom(numbers, i + 1))

Over(sum, count) == Fraction(sum[1], sum[2] * count)

\* average(...numbers): the sum divided by how many there are.
average(numbers) == Over(SumFrom(numbers, 1), Len(numbers))

\* for(const block of blockchain): the spine, then every branch.
blocksOf(chain) ==
    AsSeq([k \in 1..Len(entries(chain)) |-> entries(chain)[k].block])

\* The blocks of every node, node after node.
allBlocks(store) ==
    Flatten(AsSeq([n \in 1..Len(store) |-> blocksOf(store[n])]))

\* globalChain.add(block) for every block, in order.
RECURSIVE mergeFrom(_, _, _)
mergeFrom(done, blocks, i) ==
    IF i > Len(blocks) \/ done.threw THEN done
    ELSE mergeFrom(add(done.chain, blocks[i]), blocks, i + 1)

globalChain(blocks) ==
    mergeFrom([chain |-> EmptyChain, threw |-> FALSE, passes |-> 0], blocks, 1)

\* The trusts that blocks with the key of `block` carry, in order.
trustsOf(blocks, block) ==
    AsSeq([k \in 1..Len(SelectSeq(blocks, LAMBDA b : Key(b) = Key(block))) |->
             SelectSeq(blocks, LAMBDA b : Key(b) = Key(block))[k].trust])

\* Where a key is met for the first time, in order.
firstsOf(blocks) ==
    SelectSeq(AsSeq([i \in 1..Len(blocks) |-> i]),
              LAMBDA i : \A j \in 1..(i - 1) : Key(blocks[j]) # Key(blocks[i]))

\* globalChainTrust: for every key, in the order the keys are first met,
\* the first block with that key and the trusts of all blocks with it.
globalChainTrust(blocks) ==
    AsSeq([k \in 1..Len(firstsOf(blocks)) |->
             [ block |-> blocks[firstsOf(blocks)[k]],
               trusts |-> trustsOf(blocks, blocks[firstsOf(blocks)[k]]) ]])

\* for(... of chain.findAll(block)) chain.blocks[localIndex].trust = trust
RECURSIVE setTrust(_, _, _)
setTrust(chain, block, trust) ==
    BlockChain(
        AsSeq([i \in 1..Len(chain.blocks) |->
                 IF Matches(chain.blocks[i], block.id, block.previousId)
                 THEN [chain.blocks[i] EXCEPT !.trust = trust]
                 ELSE chain.blocks[i]]),
        AsSeq([j \in 1..Len(chain.branches) |->
                 setTrust(chain.branches[j], block, trust)]))

\* The averages of globalChainTrust written to a chain, entry after entry.
RECURSIVE averageInto(_, _, _)
averageInto(chain, table, k) ==
    IF k > Len(table) THEN chain
    ELSE averageInto(setTrust(chain, table[k].block, average(table[k].trusts)),
                     table, k + 1)

\* A pass that writes the averages to the node's own chain.
writtenBack(chain, table) == averageInto(chain, table, 1)

\* The pass holds no reference to a node's own chain when it writes the
\* averages: the chain stays as it is.
untouched(chain, table) == chain

\* while(globalChain.blocks[trustedIndex]?.trust === 1) trustedIndex++
trustedIndex(blocks) ==
    IF \A i \in 1..Len(blocks) : blocks[i].trust = FullTrust THEN Len(blocks)
    ELSE SetMin({i \in 1..Len(blocks) : blocks[i].trust # FullTrust}) - 1

\* globalChain.blocks.slice(0, trustedIndex + 1)
blocksToTrim(blocks) ==
    SubSeq(blocks, 1, Min(trustedIndex(blocks) + 1, Len(blocks)))

\* trimBase, first loop on one spine: the entries come from a generator over
\* the array that is spliced, so the block that moves into the place of a
\* removed one is passed over.
RECURSIVE spliceSpine(_, _, _)
spliceSpine(blocks, i, block) ==
    IF i > Len(blocks) THEN blocks
    ELSE IF Matches(blocks[i], block.id, block.previousId)
         THEN spliceSpine(RemoveAt(blocks, i), i + 1, block)
         ELSE spliceSpine(blocks, i + 1, block)

\* trimBase, first loop for one block: splice(localIndex, 1) at every entry
\* of findAll(block).
RECURSIVE spliceAll(_, _)
spliceAll(chain, block) ==
    BlockChain(spliceSpine(chain.blocks, 1, block),
               AsSeq([j \in 1..Len(chain.branches) |->
                        spliceAll(chain.branches[j], block)]))

RECURSIVE removeBase(_, _, _)
removeBase(chain, blocks, i) ==
    IF i > Len(blocks) THEN chain
    ELSE removeBase(spliceAll(chain, blocks[i]), blocks, i + 1)

\* trimBase, second loop: setAsBase() at every entry of findAll(block).
RECURSIVE setAsBase(_, _)
setAsBase(chain, block) ==
    BlockChain(
        AsSeq([i \in 1..Len(chain.blocks) |->
                 IF Matches(chain.blocks[i], block.id, block.previousId)
                 THEN [chain.blocks[i] EXCEPT !.previousId = Undefined]
                 ELSE chain.blocks[i]]),
        AsSeq([j \in 1..Len(chain.branches) |->
                 setAsBase(chain.branches[j], block)]))

\* trimBase(blocks)
trimBase(chain, blocks) ==
    tidy(setAsBase(removeBase(chain, Front(blocks), 1), Last(blocks)))

\* for(const nodeData of nodes.values()) nodeData.blockchain.trimBase(...):
\* a throw leaves the chains of the later nodes as they are.
RECURSIVE trimFrom(_, _, _)
trimNext(done, trimmed, blocks, n) ==
    trimFrom([ledgers |-> [done.ledgers EXCEPT ![n] = trimmed.chain],
              threw |-> trimmed.threw], blocks, n + 1)

trimFrom(done, blocks, n) ==
    IF n > Len(done.ledgers) \/ done.threw THEN done
    ELSE trimNext(done, trimBase(done.ledgers[n], blocks), blocks, n)

trimEvery(store, blocks) ==
    IF trustedIndex(blocks) > 0
    THEN trimFrom([ledgers |-> store, threw |-> FALSE], blocksToTrim(blocks), 1)
    ELSE [ledgers |-> store, threw |-> FALSE]

\* A pass that writes the averages to the chains of all nodes.
averagedBack(store, table) ==
    AsSeq([n \in 1..Len(store) |-> averageInto(store[n], table, 1)])

\* The chains of the nodes when the averages have been written.
averaged(store, table) ==
    AsSeq([n \in 1..Len(store) |-> untouched(store[n], table)])

\* What a pass leaves, given the federated chain and what the trimming did.
Settled(store, table, merged, federated, held, done) ==
    [ ran |-> TRUE, node |-> 0, before |-> store, table |-> table,
      merged |-> merged, federated |-> federated, held |-> held,
      trimmed |-> trustedIndex(federated.blocks) > 0,
      blocks |-> IF trustedIndex(federated.blocks) > 0
                 THEN blocksToTrim(federated.blocks) ELSE <<>>,
      ledgers |-> done.ledgers, threw |-> done.threw ]

Trimmed(store, table, merged, federated, held) ==
    Settled(store, table, merged, federated, held,
            trimEvery(held, federated.blocks))

Averaged(store, table, merged) ==
    Trimmed(store, table, merged, averageInto(merged, table, 1),
            averaged(store, table))

Merged(store, table, done) ==
    IF done.threw
    THEN [ ran |-> TRUE, node |-> 0, before |-> store, table |-> table,
           merged |-> done.chain, federated |-> done.chain, held |-> store,
           trimmed |-> FALSE,
           blocks |-> <<>>, ledgers |-> store, threw |-> TRUE ]
    ELSE Averaged(store, table, done.chain)

\* #handleBlockchainEvents() up to the trimming, on the chains of the nodes.
handleBlockchainEvents(store) ==
    Merged(store, globalChainTrust(allBlocks(store)),
           globalChain(allBlocks(store)))

NoPass ==
    [ ran |-> FALSE, node |-> 0, before |-> <<>>, table |-> <<>>,
      merged |-> EmptyChain,
      federated |-> EmptyChain, held |-> <<>>, trimmed |-> FALSE,
      blocks |-> <<>>, ledgers |-> <<>>, threw |-> FALSE ]

(***************************************************************************)
(* The collaborator (algorithms/PrebenCoin.js: process) on the chain of    *)
(* the node.  A block of such a chain also says whether it has a localId:  *)
(* #newBlock gives a copy a fresh UUID, equal to no other, and a block     *)
(* made by new Block(...) has none.                                        *)
(***************************************************************************)
\* new Block(previousId): trust is 1 and there is no localId.
newBlockOn(id, previousId) ==
    [id |-> id, previousId |-> previousId, trust |-> FullTrust, local |-> FALSE]

\* After add every block of the chain is a copy made by #newBlock.
RECURSIVE renewed(_)
renewed(chain) ==
    BlockChain(AsSeq([i \in 1..Len(chain.blocks) |->
                        [chain.blocks[i] EXCEPT !.local = TRUE]]),
               AsSeq([j \in 1..Len(chain.branches) |->
                        renewed(chain.branches[j])]))

\* entries(): globalIndex counts the blocks from the root to the entry.
RECURSIVE globalIndex(_, _, _)
globalIndex(chain, indexes, localIndex) ==
    IF indexes = <<>> THEN localIndex - 1
    ELSE Len(chain.blocks)
         + globalIndex(chain.branches[Head(indexes)], Tail(indexes), localIndex)

\* getEnds(): the last block of every chain without branches, each given
\* with its place.
RECURSIVE getEnds(_)
getEnds(chain) ==
    IF Len(chain.branches) > 0
    THEN Flatten(AsSeq([j \in 1..Len(chain.branches) |->
            LET sub == getEnds(chain.branches[j])
            IN  AsSeq([k \in 1..Len(sub) |->
                    [sub[k] EXCEPT !.chainIndexes = <<j>> \o @]])]))
    ELSE IF Len(chain.blocks) > 0
         THEN << [chainIndexes |-> <<>>, localIndex |-> Len(chain.blocks),
                  block |-> Last(chain.blocks)] >>
         ELSE <<>>

\* find(block): the first entry whose block has the localId of `block`; for
\* a block without localId that is the first entry of a block without one.
find(chain, entry) ==
    IF entry.block.local THEN entry
    ELSE entries(chain)[FirstIndex(entries(chain),
                                   LAMBDA other : ~other.block.local)]

\* ends.map(end => blockchain.find(end)), each with its globalIndex.
endEntries(chain) ==
    AsSeq([k \in 1..Len(getEnds(chain)) |->
        LET found == find(chain, getEnds(chain)[k])
        IN  [chainIndexes |-> found.chainIndexes, localIndex |-> found.localIndex,
             block |-> found.block,
             globalIndex |-> globalIndex(chain, found.chainIndexes,
                                         found.localIndex)]])

\* if(entry.globalIndex >= (bestEntry?.globalIndex || 0)) bestEntry = entry:
\* the last of the entries that are farthest from the root.
bestEntry(found) ==
    found[SetMax({k \in 1..Len(found) :
                    \A other \in 1..Len(found) :
                        found[k].globalIndex >= found[other].globalIndex})]

\* The sum trust + .1 in floating point: the tenth sum is
\* 0.9999999999999999, kept here as a fraction below 1.
raised(trust) ==
    IF trust = Fraction(9, 10) THEN Fraction(999, 1000)
    ELSE Plus(trust, Fraction(1, 10))

\* An increase without the ceiling of 1.
increasedFreely(trust) == raised(trust)

\* trust = Math.min(1, trust + trustIncrease)
increased(trust) ==
    IF AtLeast(raised(trust), FullTrust) THEN FullTrust ELSE raised(trust)

\* for(const block of blockchain) block.trust = 0
RECURSIVE distrusted(_)
distrusted(chain) ==
    BlockChain(AsSeq([i \in 1..Len(chain.blocks) |->
                        [chain.blocks[i] EXCEPT !.trust = NoTrust]]),
               AsSeq([j \in 1..Len(chain.branches) |->
                        distrusted(chain.branches[j])]))

\* chain.blocks[localIndex].trust = Math.max(block.trust, trust)
trustAt(chain, entry, trust) ==
    replaceAt(chain, entry.chainIndexes,
        [chainAt(chain, entry.chainIndexes) EXCEPT
            !.blocks[entry.localIndex].trust =
                IF AtLeast(@, trust) THEN @ ELSE trust])

\* setRecursiveBlockTrust(baseChain, blockId, trust): from a block back to
\* the root, every block found with the id gets the raised trust.
RECURSIVE setRecursiveBlockTrust(_, _, _)
RECURSIVE trustFound(_, _, _, _)
setRecursiveBlockTrust(chain, blockId, trust) ==
    IF blockId = Undefined THEN chain
    ELSE trustFound(chain, findAll(chain, blockId, Undefined), 1,
                    increased(trust))

trustFound(chain, found, k, trust) ==
    IF k > Len(found) THEN chain
    ELSE trustFound(
            setRecursiveBlockTrust(trustAt(chain, found[k], trust),
                                   found[k].block.previousId, trust),
            found, k + 1, trust)

\* updateBlockTrustLevels(nodeData)
RECURSIVE trustFromEnds(_, _, _)
trustFromEnds(chain, ends, k) ==
    IF k > Len(ends) THEN chain
    ELSE trustFromEnds(
            setRecursiveBlockTrust(chain, ends[k].block.previousId, NoTrust),
            ends, k + 1)

updateBlockTrustLevels(chain) ==
    trustFromEnds(distrusted(chain), getEnds(chain), 1)

\* Whether scope = scope.branches[index] finds a chain at every index.
RECURSIVE reaches(_, _)
reaches(chain, indexes) ==
    \/ indexes = <<>>
    \/ /\ Head(indexes) <= Len(chain.branches)
       /\ reaches(chain.branches[Head(indexes)], Tail(indexes))

\* removeBranch(indexes) for indexes that may be out of date: a step into a
\* branch that is not there raises a TypeError, and splice past the end
\* removes nothing.
removeBranchAt(done, indexes) ==
    IF done.threw THEN done
    ELSE IF indexes = <<>>
    THEN [done EXCEPT !.chain.branches = Tail(@)]
    ELSE IF ~reaches(done.chain, Front(indexes))
    THEN [done EXCEPT !.threw = TRUE]
    ELSE IF Last(indexes) > Len(chainAt(done.chain, Front(indexes)).branches)
    THEN done
    ELSE [done EXCEPT !.chain = removeBranch(@, indexes)]

\* removeAbandonedBranches(nodeData): an end more than three blocks behind
\* the best one has its branch removed, at the indexes it had before the
\* loop started.
RECURSIVE removeBehind(_, _, _, _)
removeBehind(done, found, best, k) ==
    IF k > Len(found) THEN done
    ELSE removeBehind(IF found[k].globalIndex < best - 3
                      THEN removeBranchAt(done, found[k].chainIndexes)
                      ELSE done,
                      found, best, k + 1)

removeAbandonedBranches(chain) ==
    IF getEnds(chain) = <<>> THEN [chain |-> chain, threw |-> FALSE]
    ELSE removeBehind([chain |-> chain, threw |-> FALSE], endEntries(chain),
                      bestEntry(endEntries(chain)).globalIndex, 1)

\* What the first part of process leaves: the chain, whether it raised, the
\* block of the packet or the new block, and whether packets are sent.
Answer(chain, threw, block, sends) ==
    [chain |-> chain, threw |-> threw, block |-> block, sends |-> sends]

\* packet instanceof BlockPacket: a block the chain does not have is added
\* and sent on to the peers.
onBlockPacket(chain, block) ==
    IF has(chain, block, 1) THEN Answer(chain, FALSE, block, FALSE)
    ELSE Answer(renewed(add(chain, block).chain), add(chain, block).threw,
                block, TRUE)

\* bestEntry.chain.blocks.push(new Block(bestEntry.block.id))
pushed(chain, best, id) ==
    Answer(replaceAt(chain, best.chainIndexes,
               [chainAt(chain, best.chainIndexes) EXCEPT
                   !.blocks = Append(@, newBlockOn(id, best.block.id))]),
           FALSE, newBlockOn(id, best.block.id), TRUE)

\* packet instanceof NewBlockSignal: a new block on the best end, or a first
\* block; `id` is the id that randomColor() draws for it.
onNewBlockSignal(chain, id) ==
    IF getEnds(chain) # <<>>
    THEN pushed(chain, bestEntry(endEntries(chain)), id)
    ELSE Answer(renewed(add(chain, newBlockOn(id, Undefined)).chain),
                add(chain, newBlockOn(id, Undefined)).threw,
                newBlockOn(id, Undefined), TRUE)

\* updateBlockTrustLevels(nodeData); removeAbandonedBranches(nodeData)
tended(first, removed) ==
    Answer(removed.chain, removed.threw, first.block, first.sends)

\* process(packet, nodeData) from the end of the if chain on.
process(first) ==
    IF first.threw THEN first
    ELSE tended(first,
                removeAbandonedBranches(updateBlockTrustLevels(first.chain)))

\* sendPackets: new BlockPacket(address, nodeData.address, block) for every
\* address of nodeData.allAddressKeys.
blockPackets(done, from, book) ==
    IF done.sends /\ ~done.threw
    THEN AsSeq([k \in 1..Len(book) |->
                  [type |-> "block", to |-> book[k], from |-> from,
                   block |-> done.block]])
    ELSE <<>>

\* No call of process yet.
NoCall ==
    [ type |-> "none", node |-> 0, block |-> newBlockOn(1, Undefined),
      known |-> FALSE, book |-> <<>>, packets |-> <<>>, before |-> EmptyChain,
      returned |-> EmptyChain, threw |-> FALSE ]

(***************************************************************************)
(* random (nodeMethods.js): mulberry32 with one state for every context.   *)
(* A 32-bit integer is the pair of its halves << high, low >>, each of 16  *)
(* bits, so that no step leaves the width.                                 *)
(***************************************************************************)
HalfBits == 16

Half == 2 ^ HalfBits

\* The addend of mulberry32.
Increment == 1831565813

\* ToInt32 of a number that is not negative and below 2^31.
ToWord(n) == << n \div Half, n % Half >>

RECURSIVE XorHalf(_, _, _)
XorHalf(a, b, k) ==
    IF k = 0 THEN 0
    ELSE ((a + b) % 2) + 2 * XorHalf(a \div 2, b \div 2, k - 1)

RECURSIVE OrHalf(_, _, _)
OrHalf(a, b, k) ==
    IF k = 0 THEN 0
    ELSE (IF (a % 2) + (b % 2) > 0 THEN 1 ELSE 0)
         + 2 * OrHalf(a \div 2, b \div 2, k - 1)

\* a ^ b
Xor(a, b) == << XorHalf(a[1], b[1], HalfBits), XorHalf(a[2], b[2], HalfBits) >>

\* a | b
Or(a, b) == << OrHalf(a[1], b[1], HalfBits), OrHalf(a[2], b[2], HalfBits) >>

\* a >>> k, for k below 16
Shr(a, k) ==
    << a[1] \div (2 ^ k),
       (a[2] \div (2 ^ k)) + (a[1] % (2 ^ k)) * (2 ^ (HalfBits - k)) >>

\* a + b | 0
Add(a, b) ==
    << (a[1] + b[1] + ((a[2] + b[2]) \div Half)) % Half, (a[2] + b[2]) % Half >>

\* The low half of the product of two halves.
MulLow(x, y) ==
    ((x % 256) * y + ((x \div 256) * (y % 256)) * 256) % Half

\* The product of two halves, as a word.
MulHalves(x, y) ==
    Add(ToWord((x % 256) * y),
        << ((x \div 256) * y) \div 256, (((x \div 256) * y) % 256) * 256 >>)

\* Math.imul(a, b)
Imul(a, b) ==
    Add(MulHalves(a[2], b[2]),
        << (MulLow(a[1], b[2]) + MulLow(a[2], b[1])) % Half, 0 >>)

\* t = Math.imul(s ^ s >>> 15, 1 | s)
Mixed(state) == Imul(Xor(state, Shr(state, 15)), Or(ToWord(1), state))

\* t = t + Math.imul(t ^ t >>> 7, 61 | t) ^ t
Remixed(t) == Xor(Add(t, Imul(Xor(t, Shr(t, 7)), Or(ToWord(61), t))), t)

\* (t ^ t >>> 14) >>> 0: the number returned is max times this over 2^32.
Output(t) == Xor(t, Shr(t, 14))

mulberry32(state) == Output(Remixed(Mixed(state)))

\* The names a random value is asked for.
Contexts == {"color", "position"}

\* settings.seed as the controls give it: a number from 1 to 10000 (a
\* fraction is dropped by | 0 in the first sum).
Seeds == {1, 3554}

\* globalThis.seeds before a context is used: no entry.
NoState == <<>>

\* s[c] ??= settings.seed; s[c] = s[c] + 1831565813 | 0.  Without a seed
\* the sum is NaN and NaN | 0 is 0.
advance(state, seed) ==
    IF state = NoState
    THEN IF seed = Undefined THEN ToWord(0)
         ELSE Add(ToWord(seed), ToWord(Increment))
    ELSE Add(state, ToWord(Increment))

Drawn(states, context, state, max) ==
    [ seeds |-> [states EXCEPT ![context] = state],
      value |-> [context |-> context, max |-> max, word |-> mulberry32(state)] ]

\* A generator with one state for all contexts.
randomShared(states, context, max, seed) ==
    \* every context is moved on
    [ seeds |-> [c \in Contexts |-> advance(states[context], seed)],
      value |-> [context |-> context, max |-> max,
                 word |-> mulberry32(advance(states[context], seed))] ]

\* random(context, max): the states afterwards and the value returned.
random(states, context, max, seed) ==
    Drawn(states, context, advance(states[context], seed), max)

(***************************************************************************)
(* Objects (nodeMethods.js: BlockChain constructor, copy, #newBlock and    *)
(* Block.copy).  A heap holds the Block objects, the BlockChain objects    *)
(* and the range objects; an object is known by its place in the heap, and *)
(* an array holds the places of its elements.                              *)
(***************************************************************************)
\* new Block(previousId, ranges, {id, trust}) as Block.copy() calls it: the
\* ranges array is spread into a new array, which holds the same range
\* objects.
copyBlock(object) ==
    [id |-> object.id, previousId |-> object.previousId, trust |-> object.trust,
     ranges |-> AsSeq([i \in 1..Len(object.ranges) |-> object.ranges[i]])]

RECURSIVE copyBranches(_, _, _)

\* A constructor that keeps the Block objects it is given.
constructShared(heap, blocks, branches) ==
    LET done == copyBranches(heap, branches, <<>>)
    IN  [heap |-> [done.heap EXCEPT
                     !.chains = Append(@, [blocks |-> blocks,
                                           branches |-> done.copies])],
         chain |-> Len(done.heap.chains) + 1]

\* new BlockChain({blocks, branches}): this.blocks = blocks.map(#newBlock),
\* this.branches = branches.map(branch => branch.copy()).  The heap
\* afterwards and the place of the new chain.
construct(heap, blocks, branches) ==
    LET copied == [heap EXCEPT
                     !.blocks = @ \o AsSeq([i \in 1..Len(blocks) |->
                                             copyBlock(heap.blocks[blocks[i]])])]
        done == copyBranches(copied, branches, <<>>)
    IN  [heap |-> [done.heap EXCEPT
                     !.chains = Append(@,
                        [blocks |-> AsSeq([i \in 1..Len(blocks) |->
                                             Len(heap.blocks) + i]),
                         branches |-> done.copies])],
         chain |-> Len(done.heap.chains) + 1]

\* branches.map(branch => branch.copy()), copy() being new BlockChain(this).
copyBranches(heap, branches, copies) ==
    IF branches = <<>> THEN [heap |-> heap, copies |-> copies]
    ELSE LET one == construct(heap, heap.chains[Head(branches)].blocks,
                              heap.chains[Head(branches)].branches)
         IN  copyBranches(one.heap, Tail(branches), Append(copies, one.chain))

\* The BlockChain objects of the ledger that starts at a chain.
RECURSIVE chainsIn(_, _)
chainsIn(heap, root) ==
    {root} \cup UNION { chainsIn(heap, heap.chains[root].branches[j]) :
                          j \in 1..Len(heap.chains[root].branches) }

\* The Block objects of the ledger that starts at a chain.
blocksIn(heap, root) ==
    UNION { Range(heap.chains[c].blocks) : c \in chainsIn(heap, root) }

\* What a reader of a Block object sees.
read(heap, block) ==
    [heap.blocks[block] EXCEPT
       !.ranges = AsSeq([i \in 1..Len(@) |-> heap.ranges[@[i]]])]

\* What a reader of the ledger that starts at a chain sees.
RECURSIVE ledgerAt(_, _)
ledgerAt(heap, root) ==
    BlockChain(AsSeq([i \in 1..Len(heap.chains[root].blocks) |->
                        read(heap, heap.chains[root].blocks[i])]),
               AsSeq([j \in 1..Len(heap.chains[root].branches) |->
                        ledgerAt(heap, heap.chains[root].branches[j])]))

\* A ledger after three blocks were added: block 1 with the branches of
\* blocks 2 and 3.  Every block holds the whole range of its transactions.
FirstHeap ==
    [ ranges |-> << [from |-> 1, to |-> 10000], [from |-> 1, to |-> 10000],
                    [from |-> 1, to |-> 10000] >>,
      blocks |-> << [id |-> 1, previousId |-> Undefined, trust |-> FullTrust,
                     ranges |-> <<1>>],
                    [id |-> 2, previousId |-> 1, trust |-> FullTrust,
                     ranges |-> <<2>>],
                    [id |-> 3, previousId |-> 1, trust |-> FullTrust,
                     ranges |-> <<3>>] >>,
      chains |-> << [blocks |-> <<2>>, branches |-> <<>>],
                    [blocks |-> <<3>>, branches |-> <<>>],
                    [blocks |-> <<1>>, branches |-> <<1, 2>>] >> ]

(***************************************************************************)
(* Settings, nodes, packets and events (simulation.js, nodeMethods.js)     *)
(***************************************************************************)
MaxNodes == 2

MaxPosition == 1

MaxPackets == 2

MaxDispatched == 4

FirstBlockTime == 5000

\* The start message's settings.  `shape` says which groups the object
\* has: "ok" all of them, "noNodes" lacks `nodes`, "noBlock" lacks `block`.
SettingsSet ==
    [ nodes : 1..MaxNodes, startNodes : {1}, nodesToAdd : {1},
      nodeDelay : {1000}, blockDelay : {3000}, networkDelay : {500},
      shape : {"ok", "noNodes", "noBlock"} ]
    \cup
    [ nodes : 1..MaxNodes, startNodes : 1..2, nodesToAdd : 1..2,
      nodeDelay : {1000}, blockDelay : {3000}, networkDelay : {500},
      shape : {"ok"} ]

NoSettings ==
    [ nodes |-> 0, startNodes |-> 0, nodesToAdd |-> 0, nodeDelay |-> 0,
      blockDelay |-> 0, networkDelay |-> 0, shape |-> "empty" ]

Positions == 0..MaxPosition

\* distance(): positions lie on one line, so it is the difference.
distance(position1, position2) ==
    IF position1 >= position2 THEN position1 - position2
    ELSE position2 - position1

\* new NodeData(): the next rolling address, a random position, no data yet.
NodeData(address, position) ==
    [address |-> address, position |-> position, data |-> 0]

\* new Packet(to, from): delay = distance * settings.network.delay.
Packet(type, to, from, store, config) ==
    [ type |-> type, to |-> to, from |-> from,
      delay |-> distance(store[from].position, store[to].position)
                    * config.networkDelay ]

NoPacket == [type |-> "none", to |-> 0, from |-> 0, delay |-> 0]

\* `event.with || {}`: no firstNodes, no timestamp.
NoContext == [firstNodes |-> <<>>, timestamp |-> 0]

\* new FunctionEvent(run, runWith, timestamp)
FunctionEvent(run, runWith, time) ==
    [ uid |-> 0, kind |-> "function", timestamp |-> time, run |-> run,
      with |-> runWith, packet |-> NoPacket ]

\* A NodeEvent that is due when its packet is sent.
SentTime(sent, delay) == sent

\* The timestamp of a NodeEvent: when the packet was sent plus its delay.
ArrivalTime(sent, delay) == sent + delay

\* new NodeEvent(packet, timestamp)
NodeEvent(packet, sent) ==
    [ uid |-> 0, kind |-> "node",
      timestamp |-> ArrivalTime(sent, packet.delay), run |-> "none",
      with |-> NoContext, packet |-> packet ]

\* sendDrawEvent(message): posted when there is a postMessage, else skipped.
sendDrawEvent(message, present) == IF present THEN <<message>> ELSE <<>>

\* A NodeEvent constructor that sends a draw event for every packet.
drawEventAlways(packet, present) ==
    sendDrawEvent([from |-> packet.from, to |-> packet.to,
                   delay |-> packet.delay], present)

\* The draw event that the NodeEvent constructor sends for its packet.
drawEvent(packet, present) ==
    IF packet.from # packet.to
    THEN sendDrawEvent([from |-> packet.from, to |-> packet.to,
                        delay |-> packet.delay], present)
    ELSE <<>>

\* The draw events sent while a list of events is constructed, in order.
drawEvents(list, present) ==
    Flatten(AsSeq([i \in 1..Len(list) |->
                     IF list[i].kind = "node"
                     THEN drawEvent(list[i].packet, present) ELSE <<>>]))

\* sendDrawEvent puts the clock of the moment before the fields of the
\* message: every draw event carries the timestamp at which it is sent.
stamped(messages, clock) ==
    AsSeq([i \in 1..Len(messages) |->
             [from |-> messages[i].from, to |-> messages[i].to,
              delay |-> messages[i].delay, timestamp |-> clock]])

(***************************************************************************)
(* EventQueue (simulation.js)                                              *)
(***************************************************************************)
\* Array.prototype.sort((a, b) => a.timestamp - b.timestamp) is stable: an
\* element comes after those with an earlier timestamp and after those with
\* the same timestamp that stood before it.
SortByTimestamp(list) ==
    LET before(i) == { j \in 1..Len(list) :
                        \/ list[j].timestamp < list[i].timestamp
                        \/ (list[j].timestamp = list[i].timestamp /\ j < i) }
    IN  AsSeq([k \in 1..Len(list) |->
                 list[CHOOSE i \in 1..Len(list) : Cardinality(before(i)) = k - 1]])

\* A #sort() that leaves the list as it is.
unsorted(list, sorted) == list

\* #sort(): only when an enqueue has marked the list unsorted.
sort(list, sorted) == IF sorted THEN list ELSE SortByTimestamp(list)

\* A dequeue() without its first line.
QuitNever(isDequeueing) == FALSE

\* dequeue(), first line: quit when another instance runs.
Quit(isDequeueing) == isDequeueing

\* A while condition that does not read the run flag.
LoopConditionNoRun(list, isRunning) == Len(list) > 0

\* The while condition of dequeue().
LoopCondition(list, isRunning) == Len(list) > 0 /\ isRunning

\* A dequeue() that does not make it known that it runs.
dequeueUnmarked(q) ==
    IF Quit(q.dequeueing) THEN q
    ELSE [q EXCEPT !.spent = FALSE, !.sync = <<"loop">> \o @, !.drains = @ + 1]

\* dequeue() up to its loop: behind the guard a new instance of the loop
\* becomes the running frame of the current task.
dequeue(q) ==
    IF Quit(q.dequeueing) THEN q
    ELSE [q EXCEPT !.dequeueing = TRUE, !.spent = FALSE,
                   !.sync = <<"loop">> \o @, !.drains = @ + 1]

\* enqueue(newEvent): push, mark unsorted, run dequeue.
enqueue(q, event) ==
    dequeue([q EXCEPT !.events = Append(@, [event EXCEPT !.uid = q.nextUid]),
                      !.nextUid = @ + 1,
                      !.isSorted = FALSE])

\* enqueue called for one event after the other.
RECURSIVE enqueueAll(_, _)
enqueueAll(q, list) ==
    IF list = <<>> THEN q
    ELSE Bind(enqueue(q, Head(list)),
              LAMBDA next : enqueueAll(next, Tail(list)))

VARIABLES
    startPc,        \* onmessage "start": "idle", "importing" (at the await), "done"
    settings,       \* globalThis.settings without its run flag
    run,            \* globalThis.settings.run
    timestamp,      \* globalThis.timestamp
    nodes,          \* globalThis.nodes, by address
    events,         \* EventQueue.#events
    isSorted,       \* EventQueue.#isSorted
    dequeueing,     \* EventQueue.#dequeueing
    spent,          \* whether Date.now() - #dequeueStartTime can exceed #maxDequeueTime
    sync,           \* frames of the running task, innermost first
    inflight,       \* dequeue instances suspended at `await nodeProcess(...)`
    timers,         \* pending setTimeout callbacks
    nextUid,        \* identity of the next event object
    drains,         \* dequeue instances past the guard that have not ended
    dispatched,     \* the events popped, in order
    returned,       \* the deliveries completed, in order
    errors,         \* error events sent (sendErrorEvent)
    faults,         \* faults raised by functions and the collaborator
    stopped,        \* Len(dispatched) when a fault first left dequeue, else -1
    paused,         \* the last of pause/resume handled was a pause
    wake,           \* a resume found events queued and nothing was popped since
    chain,          \* SpecChain: the ledger
    adds,           \* SpecChain: calls of add so far
    trims,          \* SpecTrim: calls of trimBase so far
    added,          \* SpecChain: the blocks passed to add
    given,          \* SpecChain: the blocks passed to add, in order
    last,           \* SpecChain: what the last add was given and did
    ledgers,        \* SpecTrust: nodeData.blockchain of every node, by address
    minted,         \* SpecTrust: the blocks created so far
    received,       \* SpecTrust: changes the collaborators have made so far
    pass,           \* SpecTrust: the last run of #handleBlockchainEvents
    gone,           \* SpecTrust: the ids that trimBase has taken out of every ledger
    consumer,       \* "postMessage" in globalThis
    seed,           \* SpecRandom: globalThis.settings.seed
    seeds,          \* SpecRandom: globalThis.seeds, by context
    drawn,          \* SpecRandom: what random has returned, in order
    flights,        \* the packet draw events that NodeEvent has sent
    objects,        \* SpecObjects: the heap
    roots,          \* SpecObjects: the ledgers, each the place of its chain
    wrote,          \* SpecObjects: the ledgers that the steps wrote through
    call            \* SpecCoin: the last call of process and what it returned

queueVars == << startPc, settings, run, timestamp, nodes, events, isSorted,
                dequeueing, spent, sync, inflight, timers, nextUid, drains,
                dispatched, returned, errors, faults, stopped, paused, wake >>

chainVars == << chain, adds, trims, added, given, last >>

trustVars == << ledgers, minted, received, pass, gone >>

randomVars == << seed, seeds, drawn >>

objectVars == << objects, roots, wrote >>

vars == << queueVars, chainVars, trustVars, consumer, randomVars, flights,
          objectVars, call >>

NoLast == [ block |-> Block(1, Undefined), known |-> FALSE, before |-> EmptyChain,
            untidy |-> EmptyChain, threw |-> FALSE, passes |-> 0,
            called |-> "none" ]

\* The state when the module is loaded, in a host with or without
\* postMessage.
Loaded(present) ==
    /\ startPc = "idle"
    /\ settings = NoSettings
    /\ run = FALSE
    /\ timestamp = 0
    /\ nodes = <<>>
    /\ events = <<>>
    /\ isSorted = TRUE
    /\ dequeueing = FALSE
    /\ spent = FALSE
    /\ sync = <<>>
    /\ inflight = <<>>
    /\ timers = 0
    /\ nextUid = 1
    /\ drains = 0
    /\ dispatched = <<>>
    /\ returned = <<>>
    /\ errors = 0
    /\ faults = 0
    /\ stopped = -1
    /\ paused = FALSE
    /\ wake = FALSE
    /\ chain = EmptyChain
    /\ adds = 0
    /\ trims = 0
    /\ added = {}
    /\ given = <<>>
    /\ last = NoLast
    /\ ledgers = AsSeq([n \in 1..MaxHolders |-> EmptyChain])
    /\ minted = {}
    /\ received = 0
    /\ pass = NoPass
    /\ gone = {}
    /\ consumer = present
    /\ seed = Undefined
    /\ seeds = [c \in Contexts |-> NoState]
    /\ drawn = <<>>
    /\ flights = <<>>
    /\ objects = FirstHeap
    /\ roots = <<3>>
    /\ wrote = <<>>
    /\ call = NoCall

\* The simulation runs in a worker: postMessage is there.
Init == Loaded(TRUE)

InitHost == \E present \in BOOLEAN : Loaded(present)

\* The part of the state that enqueue and dequeue work on.
Queue ==
    [ events |-> events, isSorted |-> isSorted, dequeueing |-> dequeueing,
      spent |-> spent, sync |-> sync, drains |-> drains, nextUid |-> nextUid ]

Store(q) ==
    /\ events' = q.events
    /\ isSorted' = q.isSorted
    /\ dequeueing' = q.dequeueing
    /\ spent' = q.spent
    /\ sync' = q.sync
    /\ drains' = q.drains
    /\ nextUid' = q.nextUid

(***************************************************************************)
(* Function events (simulation.js: addNodes, newBlock)                     *)
(***************************************************************************)
\* A call of addNodes that does not look at settings.network.nodes.
addCountUncapped(this, store, config) ==
    LET limit == IF this.firstNodes = <<>>
                 THEN config.startNodes
                 ELSE Len(store) + config.nodesToAdd
    IN  IF limit > Len(store) THEN limit - Len(store) ELSE 0

\* The nodes that one call of addNodes creates.
addCount(this, store, config) ==
    LET limit == IF this.firstNodes = <<>>
                 THEN Min(config.startNodes, config.nodes)
                 ELSE Min(Len(store) + config.nodesToAdd, config.nodes)
    IN  IF limit > Len(store) THEN limit - Len(store) ELSE 0

\* addNodes.call(this) with the positions that random() draws for the new
\* nodes: the store afterwards and the events it enqueues, in order.  An
\* object without the `nodes` group makes the first read of
\* settings.nodes.startNodes raise before anything is done.
addNodes(this, store, config, positions) ==
    IF config.shape = "noNodes"
    THEN [fault |-> TRUE, nodes |-> store, enqueued |-> <<>>]
    ELSE
    LET count == addCount(this, store, config)
        addresses == AsSeq([i \in 1..count |-> Len(store) + i])
        newStore == store \o AsSeq([i \in 1..count |->
                                     NodeData(Len(store) + i, positions[i])])
        firstNodes == IF this.firstNodes = <<>> THEN addresses
                      ELSE this.firstNodes
        greetings == AsSeq([i \in 1..count |->
                       NodeEvent(Packet("address", addresses[i], addresses[i],
                                        newStore, config), this.timestamp)])
        nextTimestamp == this.timestamp + config.nodeDelay
        again == IF Len(newStore) < config.nodes
                 THEN << FunctionEvent("addNodes",
                                       [firstNodes |-> firstNodes,
                                        timestamp |-> nextTimestamp],
                                       nextTimestamp) >>
                 ELSE <<>>
    IN  [fault |-> FALSE, nodes |-> newStore, enqueued |-> greetings \o again]

\* A newBlock that does not add itself back to the queue.
newBlockOnce(finder, clock, store, config) ==
    IF Len(store) = 0
    THEN [fault |-> TRUE, enqueued |-> <<>>]
    ELSE [fault |-> config.shape = "noBlock",
          enqueued |-> << NodeEvent(Packet("signal", finder, finder, store,
                                           config), clock) >>]

\* newBlock() when random() picks `finder`: the events it enqueues before it
\* returns or raises.  Without nodes the packet's constructor raises; an
\* object without the `block` group raises after the signal is enqueued.
newBlock(finder, clock, store, config) ==
    IF Len(store) = 0
    THEN [fault |-> TRUE, enqueued |-> <<>>]
    ELSE
    LET signal == NodeEvent(Packet("signal", finder, finder, store, config), clock)
    IN  IF config.shape = "noBlock"
        THEN [fault |-> TRUE, enqueued |-> <<signal>>]
        ELSE [fault |-> FALSE,
              enqueued |-> << signal,
                              FunctionEvent("newBlock", NoContext,
                                            clock + config.blockDelay) >>]

\* sendLogEvent(message, data) calls postMessage without asking whether it is
\* there: without it the call raises a ReferenceError.
sendLogEvent(present) == ~present

(***************************************************************************)
(* Messages and timers (simulation.js: onmessage, setTimeout)              *)
(***************************************************************************)
\* "start" up to `await import(...)`.
MsgStart ==
    /\ startPc = "idle"
    /\ sync = <<>>
    /\ ~sendLogEvent(consumer)
    /\ \E s \in SettingsSet : settings' = s
    /\ run' = FALSE
    /\ startPc' = "importing"
    /\ UNCHANGED << timestamp, nodes, events, isSorted, dequeueing, spent, sync,
                    inflight, timers, nextUid, drains, dispatched, returned,
                    errors, faults, stopped, paused, wake >>
    /\ UNCHANGED << chainVars, trustVars, consumer, randomVars, flights,
                 objectVars, call >>

\* "start" after the import: set run, enqueue addNodes; the second enqueue
\* follows when the call of the first returns.
StartContinue ==
    /\ startPc = "importing"
    /\ sync = <<>>
    /\ run' = TRUE
    /\ \E q \in {enqueue(Queue, FunctionEvent("addNodes", NoContext, 0))} :
         Store([q EXCEPT !.sync = @ \o <<"start">>])
    /\ startPc' = "enqueueing"
    /\ UNCHANGED << settings, timestamp, nodes, inflight, timers, dispatched,
                    returned, errors, faults, stopped, paused, wake >>
    /\ UNCHANGED << chainVars, trustVars, consumer, randomVars, flights,
                 objectVars, call >>

\* "start", last statement: enqueue newBlock at 5000.
StartEnqueue ==
    /\ sync # <<>>
    /\ Head(sync) = "start"
    /\ \E q \in {enqueue([Queue EXCEPT !.sync = Tail(@)],
                       FunctionEvent("newBlock", NoContext, FirstBlockTime))} :
         Store(q)
    /\ startPc' = "done"
    /\ UNCHANGED << settings, run, timestamp, nodes, inflight, timers,
                    dispatched, returned, errors, faults, stopped, paused, wake >>
    /\ UNCHANGED << chainVars, trustVars, consumer, randomVars, flights,
                 objectVars, call >>

\* "pause"
MsgPause ==
    /\ startPc = "done"
    /\ sync = <<>>
    /\ run' = FALSE
    /\ paused' = TRUE
    /\ UNCHANGED << startPc, settings, timestamp, nodes, events, isSorted,
                    dequeueing, spent, sync, inflight, timers, nextUid, drains,
                    dispatched, returned, errors, faults, stopped, wake >>
    /\ UNCHANGED << chainVars, trustVars, consumer, randomVars, flights,
                 objectVars, call >>

\* A "resume" that only sets the run flag.
resumeOnly(q) == q

\* A "resume" that starts a loop whether or not one is running.
resumeAnew(q) == dequeue([q EXCEPT !.dequeueing = FALSE])

\* What "resume" does to the queue.
resume(q) == dequeue(q)

\* "resume"
MsgResume ==
    /\ startPc = "done"
    /\ sync = <<>>
    /\ run' = TRUE
    /\ paused' = FALSE
    /\ \E q \in {resume(Queue)} : Store(q)
    /\ wake' = (wake \/ (Len(events) > 0 /\ faults = 0))
    /\ UNCHANGED << startPc, settings, timestamp, nodes, inflight, timers,
                    dispatched, returned, errors, faults, stopped >>
    /\ UNCHANGED << chainVars, trustVars, consumer, randomVars, flights,
                 objectVars, call >>

\* The callback of setTimeout(() => eventQueue.dequeue(), 1).
TimerFire ==
    /\ timers > 0
    /\ sync = <<>>
    /\ timers' = timers - 1
    /\ \E q \in {dequeue(Queue)} : Store(q)
    /\ UNCHANGED << startPc, settings, run, timestamp, nodes, inflight,
                    dispatched, returned, errors, faults, stopped, paused, wake >>
    /\ UNCHANGED << chainVars, trustVars, consumer, randomVars, flights,
                 objectVars, call >>

(***************************************************************************)
(* The loop of dequeue() (simulation.js)                                   *)
(***************************************************************************)
InLoop == sync # <<>> /\ Head(sync) = "loop"

\* The instance leaves dequeue() by its last line.
Leave(q) ==
    [q EXCEPT !.sync = Tail(@), !.dequeueing = FALSE, !.drains = @ - 1]

\* A throw that runs the last line of dequeue() on its way out.
AbortCleared(q) ==
    [q EXCEPT !.sync = Tail(@), !.dequeueing = FALSE, !.drains = @ - 1]

\* The instance leaves dequeue() by a throw: the last line is not run.
Abort(q) == [q EXCEPT !.sync = Tail(@), !.drains = @ - 1]

\* this.#sort(); const event = this.#events.shift();
\* A shift() that is not preceded by #sort().
Next1Unsorted(list, sorted) == Head(list)

Next1(list, sorted) == Head(sort(list, sorted))

\* A shift() that leaves the event in the queue.
RestAll(list, sorted) == sort(list, sorted)

Rest(list, sorted) == Tail(sort(list, sorted))

Popped(q) ==
    [q EXCEPT !.events = Rest(q.events, q.isSorted), !.isSorted = TRUE,
              !.spent = TRUE]

\* A fault leaves dequeue(): an error event is sent and the error rethrown.
Raise(popped) ==
    /\ errors' = errors + 1
    /\ faults' = faults + 1
    /\ stopped' = IF stopped = -1 THEN popped ELSE stopped

\* The while condition is false.
LoopExit ==
    /\ InLoop
    /\ ~LoopCondition(events, run)
    /\ \E q \in {Leave(Queue)} : Store(q)
    /\ UNCHANGED << startPc, settings, run, timestamp, nodes, inflight, timers,
                    dispatched, returned, errors, faults, stopped, paused, wake >>
    /\ UNCHANGED << chainVars, trustVars, consumer, randomVars, flights,
                 objectVars, call >>

\* A break that sets no timer.
LoopYieldNoTimer ==
    /\ InLoop
    /\ LoopCondition(events, run)
    /\ spent
    /\ \E q \in {Leave(Queue)} : Store(q)
    /\ UNCHANGED << startPc, settings, run, timestamp, nodes, inflight, timers,
                    dispatched, returned, errors, faults, stopped, paused, wake >>
    /\ UNCHANGED << chainVars, trustVars, consumer, randomVars, flights,
                 objectVars, call >>

\* The time budget is used up: set the timer and break.
LoopYield ==
    /\ InLoop
    /\ LoopCondition(events, run)
    /\ spent
    /\ timers' = timers + 1
    /\ \E q \in {Leave(Queue)} : Store(q)
    /\ UNCHANGED << startPc, settings, run, timestamp, nodes, inflight,
                    dispatched, returned, errors, faults, stopped, paused, wake >>
    /\ UNCHANGED << chainVars, trustVars, consumer, randomVars, flights,
                 objectVars, call >>

\* Pop a FunctionEvent of addNodes and run it.  addNodes is async: what it
\* raises rejects a promise nobody holds, the try block is left normally.
DispatchAddNodes ==
    /\ InLoop
    /\ LoopCondition(events, run)
    /\ Len(dispatched) < MaxDispatched
    /\ \E event \in {Next1(events, isSorted)} :
         /\ event.kind = "function"
         /\ event.run = "addNodes"
         /\ timestamp' = event.timestamp
         /\ dispatched' = Append(dispatched, event)
         /\ \E positions \in [1..addCount(event.with, nodes, settings) -> Positions] :
              \E done \in {addNodes(event.with, nodes, settings, positions)} :
                /\ nodes' = done.nodes
                /\ flights' = flights \o stamped(drawEvents(done.enqueued, consumer),
                                                        event.timestamp)
                /\ \E q \in {enqueueAll(Popped(Queue), done.enqueued)} : Store(q)
                /\ faults' = IF done.fault THEN faults + 1 ELSE faults
    /\ wake' = FALSE
    /\ UNCHANGED << startPc, settings, run, inflight, timers, returned, errors,
                    stopped, paused >>
    /\ UNCHANGED << chainVars, trustVars, consumer, randomVars, objectVars, call >>

\* Pop a FunctionEvent of newBlock and run it.
DispatchNewBlock ==
    /\ InLoop
    /\ LoopCondition(events, run)
    /\ Len(dispatched) < MaxDispatched
    /\ \E event \in {Next1(events, isSorted)} :
         /\ event.kind = "function"
         /\ event.run = "newBlock"
         /\ timestamp' = event.timestamp
         /\ dispatched' = Append(dispatched, event)
         /\ \E finder \in 1..(IF Len(nodes) = 0 THEN 1 ELSE Len(nodes)) :
              \E done \in {newBlock(finder, event.timestamp, nodes, settings)} :
                \E q \in {enqueueAll(Popped(Queue), done.enqueued)} :
                  /\ flights' = flights \o stamped(drawEvents(done.enqueued, consumer),
                                                        event.timestamp)
                  /\ IF done.fault
                     THEN Store(Abort(q)) /\ Raise(Len(dispatched) + 1)
                     ELSE Store(q) /\ UNCHANGED << errors, faults, stopped >>
    /\ wake' = FALSE
    /\ UNCHANGED << startPc, settings, run, nodes, inflight, timers, returned,
                    paused >>
    /\ UNCHANGED << chainVars, trustVars, consumer, randomVars, objectVars, call >>

\* Pop a NodeEvent and call the collaborator with the node's data: the
\* instance is suspended at the await and the task goes on below it.
DispatchNode ==
    /\ InLoop
    /\ LoopCondition(events, run)
    /\ Len(dispatched) < MaxDispatched
    /\ \E event \in {Next1(events, isSorted)} :
         /\ event.kind = "node"
         /\ timestamp' = event.timestamp
         /\ dispatched' = Append(dispatched, event)
         /\ inflight' = Append(inflight, [event |-> event,
                                           data |-> nodes[event.packet.to]])
         /\ \E q \in {[Popped(Queue) EXCEPT !.sync = Tail(@)]} : Store(q)
    /\ wake' = FALSE
    /\ UNCHANGED << startPc, settings, run, nodes, timers, returned, errors,
                    faults, stopped, paused >>
    /\ UNCHANGED << chainVars, trustVars, consumer, randomVars, flights,
                 objectVars, call >>

(***************************************************************************)
(* The collaborator's answer (simulation.js: dequeue from the await on)    *)
(***************************************************************************)
\* What a collaborator sends in answer: addresses for addresses, else blocks.
answerType(packet) == IF packet.type = "address" THEN "address" ELSE "block"

\* The packets a collaborator at node `from` sends to the nodes in `tos`.
sendPackets(type, from, tos, store, config) ==
    AsSeq([i \in 1..Len(tos) |-> Packet(type, tos[i], from, store, config)])

\* Deliveries that are sent at time 0 whatever the clock shows.
deliveriesAtStart(packets, clock) ==
    AsSeq([i \in 1..Len(packets) |-> NodeEvent(packets[i], 0)])

\* for(const packet of sendPackets) this.enqueue(new NodeEvent(packet, timestamp))
deliveries(packets, clock) ==
    AsSeq([i \in 1..Len(packets) |-> NodeEvent(packets[i], clock)])

\* The packets that the collaborators have returned so far.
sent(answers) ==
    Len(Flatten(AsSeq([k \in 1..Len(answers) |-> answers[k].packets])))

\* The state the collaborator returns for the state it was given.
processed(nodeData) == [nodeData EXCEPT !.data = @ + 1]

\* nodes.update(nodeData)
update(store, nodeData) == [store EXCEPT ![nodeData.address] = nodeData]

\* The collaborator resolves: store the state, enqueue the packets and go on
\* with the loop.
CollabReturn ==
    /\ sync = <<>>
    /\ \E i \in 1..Len(inflight) :
         \E n \in 0..(MaxPackets - sent(returned)) :
           \E tos \in [1..n -> 1..Len(nodes)] :
             \E packets \in {sendPackets(answerType(inflight[i].event.packet),
                                         inflight[i].event.packet.to, tos,
                                         nodes, settings)} :
               /\ inflight' = RemoveAt(inflight, i)
               /\ nodes' = update(nodes, processed(inflight[i].data))
               /\ flights' = flights \o stamped(
                              drawEvents(deliveries(packets, timestamp), consumer),
                              timestamp)
               /\ \E q \in {enqueueAll([Queue EXCEPT !.sync = <<"loop">>,
                                                      !.spent = TRUE],
                                      deliveries(packets, timestamp))} : Store(q)
               /\ returned' = Append(returned,
                                [event |-> inflight[i].event, packets |-> packets,
                                 data |-> processed(inflight[i].data), run |-> run])
    /\ UNCHANGED << startPc, settings, run, timestamp, timers, dispatched,
                    errors, faults, stopped, paused, wake >>
    /\ UNCHANGED << chainVars, trustVars, consumer, randomVars, objectVars, call >>

\* The collaborator rejects, or its result cannot be read.
CollabFault ==
    /\ sync = <<>>
    /\ \E i \in 1..Len(inflight) : inflight' = RemoveAt(inflight, i)
    /\ drains' = drains - 1
    /\ Raise(Len(dispatched))
    /\ UNCHANGED << startPc, settings, run, timestamp, nodes, events, isSorted,
                    dequeueing, spent, sync, timers, nextUid, dispatched,
                    returned, paused, wake >>
    /\ UNCHANGED << chainVars, trustVars, consumer, randomVars, flights,
                 objectVars, call >>

\* The aggregation pass raises after the state was stored.
AggregationFault ==
    /\ sync = <<>>
    /\ \E i \in 1..Len(inflight) :
         /\ inflight' = RemoveAt(inflight, i)
         /\ nodes' = update(nodes, processed(inflight[i].data))
    /\ drains' = drains - 1
    /\ Raise(Len(dispatched))
    /\ UNCHANGED << startPc, settings, run, timestamp, events, isSorted,
                    dequeueing, spent, sync, timers, nextUid, dispatched,
                    returned, paused, wake >>
    /\ UNCHANGED << chainVars, trustVars, consumer, randomVars, flights,
                 objectVars, call >>

Next ==
    \/ MsgStart
    \/ StartContinue
    \/ StartEnqueue
    \/ MsgPause
    \/ MsgResume
    \/ TimerFire
    \/ LoopExit
    \/ LoopYield
    \/ DispatchAddNodes
    \/ DispatchNewBlock
    \/ DispatchNode
    \/ CollabReturn
    \/ CollabFault
    \/ AggregationFault

Spec == Init /\ [][Next]_vars

\* "start" in a host without postMessage: sendLogEvent("Starting simulation")
\* raises before the settings are stored.  Only the first such message is
\* followed.
MsgStartFault ==
    /\ startPc = "idle"
    /\ sync = <<>>
    /\ sendLogEvent(consumer)
    /\ faults = 0
    /\ faults' = faults + 1
    /\ UNCHANGED << startPc, settings, run, timestamp, nodes, events, isSorted,
                    dequeueing, spent, sync, inflight, timers, nextUid, drains,
                    dispatched, returned, errors, stopped, paused, wake >>
    /\ UNCHANGED << chainVars, trustVars, consumer, randomVars, flights,
                 objectVars, call >>

NextHost == Next \/ MsgStartFault

\* The simulation in a host with or without postMessage.
SpecHost == InitHost /\ [][NextHost]_vars

\* The running task runs to its end, a pending timer fires, the import and
\* the collaborator's promise settle; messages may never come.
Fairness ==
    /\ WF_vars(StartContinue)
    /\ WF_vars(StartEnqueue)
    /\ WF_vars(TimerFire)
    /\ WF_vars(LoopExit \/ LoopYield \/ DispatchAddNodes \/ DispatchNewBlock
                 \/ DispatchNode)
    /\ WF_vars(CollabReturn \/ CollabFault \/ AggregationFault)

FairSpec == Spec /\ Fairness

(***************************************************************************)
(* A ledger on its own (nodeMethods.js: BlockChain.add, BlockChain.tidy)   *)
(***************************************************************************)
MaxAdds == 3

\* What is kept of a call for the properties.
Call(name, block, before, untidy, done) ==
    [ block |-> block, known |-> has(before, block, 1), before |-> before,
      untidy |-> untidy, threw |-> done.threw, passes |-> done.passes,
      called |-> name ]

Called(name, block, untidy, done) ==
    /\ chain' = done.chain
    /\ last' = Call(name, block, chain, untidy, done)

\* chain.add(block)
DoAdd ==
    /\ adds < MaxAdds
    /\ \E block \in Blocks :
         /\ Called("add", block, addUntidy(chain, block), add(chain, block))
         /\ added' = added \cup {block}
         /\ given' = Append(given, block)
    /\ adds' = adds + 1
    /\ UNCHANGED trims
    /\ UNCHANGED << queueVars, trustVars, consumer, randomVars, flights,
                 objectVars, call >>

\* chain.tidy()
DoTidy ==
    /\ last.called = "add"
    /\ Called("tidy", last.block, chain, tidy(chain))
    /\ UNCHANGED << adds, trims, added, given >>
    /\ UNCHANGED << queueVars, trustVars, consumer, randomVars, flights,
                 objectVars, call >>

NextChain == DoAdd \/ DoTidy

SpecChain == Init /\ [][NextChain]_vars

(***************************************************************************)
(* A ledger that is also trimmed (nodeMethods.js: BlockChain.trimBase)     *)
(***************************************************************************)
MaxTrims == 1

MaxTrimmed == 2

\* Blocks with any previousId: a block may point to itself, or to a block
\* created after it.
AnyBlocks == {Block(i, p) : i \in 1..MaxId, p \in 0..MaxId}

\* chain.add(block), with any block.  What tidy throws is not caught: the
\* ledger is not used again.
DoAddAny ==
    /\ adds < MaxAdds
    /\ ~last.threw
    /\ \E block \in AnyBlocks :
         /\ Called("add", block, addUntidy(chain, block), add(chain, block))
         /\ added' = added \cup {block}
         /\ given' = Append(given, block)
    /\ adds' = adds + 1
    /\ UNCHANGED trims
    /\ UNCHANGED << queueVars, trustVars, consumer, randomVars, flights,
                 objectVars, call >>

\* chain.trimBase(blocks), with a list of one block or more of those that
\* the ledger was given.
DoTrim ==
    /\ trims < MaxTrims
    /\ ~last.threw
    /\ \E count \in 1..MaxTrimmed : \E blocks \in [1..count -> added] :
         Called("trimBase", Last(blocks),
                setAsBase(removeBase(chain, Front(blocks), 1), Last(blocks)),
                trimBase(chain, blocks))
    /\ trims' = trims + 1
    /\ UNCHANGED << adds, added, given >>
    /\ UNCHANGED << queueVars, trustVars, consumer, randomVars, flights,
                 objectVars, call >>

NextTrim == DoAddAny \/ DoTrim

SpecTrim == Init /\ [][NextTrim]_vars

(***************************************************************************)
(* The nodes' ledgers under the collaborator (PrebenCoin.js) and           *)
(* #handleBlockchainEvents (simulation.js)                                 *)
(***************************************************************************)
\* The ids of the blocks that the chains of a store hold.
Ids(store) == {allBlocks(store)[k].id : k \in 1..Len(allBlocks(store))}

\* The collaborator of node n has returned and the store holds the chains
\* `store`: the pass runs.
Settle(store, n) ==
    \E done \in {handleBlockchainEvents(store)} :
        /\ pass' = [done EXCEPT !.node = n]
        /\ ledgers' = done.ledgers
        /\ gone' = gone \cup (IF done.trimmed
                                THEN Ids(store) \ Ids(done.ledgers) ELSE {})

\* The collaborator adds a block it does not have to the node's chain, with
\* the trust it gives it.  A block keeps the previousId it was created with.
CollabAdd ==
    /\ received < MaxReceived
    /\ \E n \in 1..Len(ledgers) : \E block \in Blocks : \E trust \in TrustLevels :
         /\ \A other \in minted : other[1] = block.id => other = Key(block)
         /\ ~has(ledgers[n], block, 1)
         /\ \E done \in {add(ledgers[n], [block EXCEPT !.trust = trust])} :
              /\ ~done.threw
              /\ Settle([ledgers EXCEPT ![n] = done.chain], n)
         /\ minted' = minted \cup {Key(block)}
    /\ received' = received + 1
    /\ UNCHANGED << queueVars, chainVars, consumer, randomVars, flights,
                 objectVars, call >>

\* The collaborator changes the trust of one block of the node's chain.
CollabTrust ==
    /\ received < MaxReceived
    /\ \E n \in 1..Len(ledgers) : \E entry \in Range(entries(ledgers[n])) :
         \E trust \in TrustLevels \ {entry.block.trust} :
           \E scope \in {chainAt(ledgers[n], entry.chainIndexes)} :
             Settle([ledgers EXCEPT ![n] =
                       replaceAt(ledgers[n], entry.chainIndexes,
                           [scope EXCEPT !.blocks[entry.localIndex].trust = trust])],
                    n)
    /\ received' = received + 1
    /\ UNCHANGED minted
    /\ UNCHANGED << queueVars, chainVars, consumer, randomVars, flights,
                 objectVars, call >>

NextTrust == CollabAdd \/ CollabTrust

SpecTrust == Init /\ [][NextTrust]_vars

(***************************************************************************)
(* The random generator on its own (nodeMethods.js: random)                *)
(***************************************************************************)
MaxDraws == 4

\* The "start" message stores the settings, and with them the seed, before
\* a random value is asked for.
SetSeed ==
    /\ seed = Undefined
    /\ drawn = <<>>
    /\ \E number \in Seeds : seed' = number
    /\ UNCHANGED << seeds, drawn >>
    /\ UNCHANGED << queueVars, chainVars, trustVars, consumer, flights,
                    objectVars, call >>

\* A call random(context, max).
Draw ==
    /\ Len(drawn) < MaxDraws
    /\ \E context \in Contexts : \E max \in {1, 16} :
         \E done \in {random(seeds, context, max, seed)} :
            /\ seeds' = done.seeds
            /\ drawn' = Append(drawn, done.value)
    /\ UNCHANGED seed
    /\ UNCHANGED << queueVars, chainVars, trustVars, consumer, flights,
                    objectVars, call >>

NextRandom == SetSeed \/ Draw

SpecRandom == Init /\ [][NextRandom]_vars

(***************************************************************************)
(* Ledgers as objects (nodeMethods.js: copy, add, tidy rule 3, trimBase    *)
(* and the writes to a block)                                              *)
(***************************************************************************)
MaxRoots == 2

MaxWrites == 3

\* A step that touches nothing but objects.
Objects(ledger) ==
    /\ wrote' = Append(wrote, ledger)
    /\ UNCHANGED << queueVars, chainVars, trustVars, consumer, randomVars,
                    flights, call >>

\* blockchain.copy()
Copy ==
    /\ Len(wrote) < MaxWrites
    /\ Len(roots) < MaxRoots
    /\ \E r \in 1..Len(roots) :
         \E done \in {construct(objects, objects.chains[roots[r]].blocks,
                                objects.chains[roots[r]].branches)} :
            /\ objects' = done.heap
            /\ roots' = Append(roots, done.chain)
    /\ Objects(0)

\* add(block) up to its call of tidy: block is a Block object of any ledger.
Add1 ==
    /\ Len(wrote) < MaxWrites
    /\ \E r \in 1..Len(roots), from \in 1..Len(roots) :
         \E block \in blocksIn(objects, roots[from]) :
           \E fresh \in {[objects EXCEPT
                               !.blocks = Append(@, copyBlock(@[block]))]} :
             \E first \in {construct(fresh,
                                   fresh.chains[roots[r]].blocks,
                                   fresh.chains[roots[r]].branches)} :
               \E second \in {construct(first.heap, <<Len(fresh.blocks)>>, <<>>)} :
                  /\ objects' = [second.heap EXCEPT
                                   !.chains[roots[r]] =
                                       [blocks |-> <<>>,
                                        branches |-> <<first.chain, second.chain>>]]
                  /\ Objects(r)
    /\ UNCHANGED roots

\* tidy, rule 3: chain.branches.push(new BlockChain({blocks:
\* possibleBranch.chain.blocks.slice(localIndex), branches:
\* possibleBranch.chain.branches})).
Graft ==
    /\ Len(wrote) < MaxWrites
    /\ \E r \in 1..Len(roots) :
         \E possible, target \in chainsIn(objects, roots[r]) :
           \E localIndex \in 1..Len(objects.chains[possible].blocks) :
             \E done \in {construct(objects,
                                    SubSeq(objects.chains[possible].blocks,
                                           localIndex,
                                           Len(objects.chains[possible].blocks)),
                                    objects.chains[possible].branches)} :
                /\ objects' = [done.heap EXCEPT
                                 !.chains[target].branches = Append(@, done.chain)]
                /\ Objects(r)
    /\ UNCHANGED roots

\* chain.blocks[localIndex].trust = trust
WriteTrust ==
    /\ Len(wrote) < MaxWrites
    /\ \E r \in 1..Len(roots) :
         \E block \in blocksIn(objects, roots[r]) :
           \E trust \in {NoTrust, FullTrust} \ {objects.blocks[block].trust} :
              /\ objects' = [objects EXCEPT !.blocks[block].trust = trust]
              /\ Objects(r)
    /\ UNCHANGED roots

\* chain.blocks[localIndex].setAsBase()
SetAsBase ==
    /\ Len(wrote) < MaxWrites
    /\ \E r \in 1..Len(roots) :
         \E block \in blocksIn(objects, roots[r]) :
              /\ objects.blocks[block].previousId # Undefined
              /\ objects' = [objects EXCEPT !.blocks[block].previousId = Undefined]
              /\ Objects(r)
    /\ UNCHANGED roots

\* chain.blocks.splice(localIndex, 1)
Splice ==
    /\ Len(wrote) < MaxWrites
    /\ \E r \in 1..Len(roots) :
         \E target \in chainsIn(objects, roots[r]) :
           \E localIndex \in 1..Len(objects.chains[target].blocks) :
              /\ objects' = [objects EXCEPT
                               !.chains[target].blocks = RemoveAt(@, localIndex)]
              /\ Objects(r)
    /\ UNCHANGED roots

\* removeBranch: chain.branches.splice(index, 1)
Unbranch ==
    /\ Len(wrote) < MaxWrites
    /\ \E r \in 1..Len(roots) :
         \E target \in chainsIn(objects, roots[r]) :
           \E index \in 1..Len(objects.chains[target].branches) :
              /\ objects' = [objects EXCEPT
                               !.chains[target].branches = RemoveAt(@, index)]
              /\ Objects(r)
    /\ UNCHANGED roots

NextObjects ==
    Copy \/ Add1 \/ Graft \/ WriteTrust \/ SetAsBase \/ Splice \/ Unbranch

SpecObjects == Init /\ [][NextObjects]_vars

(***************************************************************************)
(* Deliveries to nodes that run PrebenCoin (simulation.js: dequeue from    *)
(* the call of nodeProcess on; PrebenCoin.js: process)                     *)
(***************************************************************************)
MaxMined == 6

MaxAddress == 3

MaxBlockPackets == 1

\* nodeData.allAddressKeys: the node talks to no other node yet, or to every
\* other address, in the order it met them.
Books(n) ==
    { SubSeq(SelectSeq(AsSeq([a \in 1..MaxAddress |-> a]),
                       LAMBDA a : a # n), 1, count) :
        count \in {0, MaxAddress - 1} }

\* The delivery of a packet to node n: process runs on the chain of the
\* node, and when it returns the pass over the chains of all nodes follows.
\* When it raises, the chain stays as process left it and no pass follows.
Delivery(n, type, block, first) ==
    \E done \in {process(first)} :
        /\ IF done.threw
           THEN /\ ledgers' = [ledgers EXCEPT ![n] = done.chain]
                /\ UNCHANGED << pass, gone >>
           ELSE Settle([ledgers EXCEPT ![n] = done.chain], n)
        /\ \E book \in Books(n) :
             call' = [ type |-> type, node |-> n, block |-> done.block,
                       known |-> has(ledgers[n], block, 1), book |-> book,
                       packets |-> blockPackets(done, n, book),
                       before |-> ledgers[n], returned |-> done.chain,
                       threw |-> done.threw ]
        /\ UNCHANGED << queueVars, chainVars, consumer, randomVars, flights,
                        objectVars >>

\* A NewBlockSignal is delivered to a node.
DeliverSignal ==
    /\ Cardinality(minted) < MaxMined
    /\ \E n \in 1..Len(ledgers) :
         \E first \in {onNewBlockSignal(ledgers[n], Cardinality(minted) + 1)} :
            /\ Delivery(n, "signal", first.block, first)
            /\ minted' = minted \cup {Key(first.block)}
    /\ UNCHANGED received

\* A BlockPacket with a block that some node has made is delivered to a
\* node.
DeliverBlock ==
    /\ received < MaxBlockPackets
    /\ \E n \in 1..Len(ledgers) : \E key \in minted :
         \E first \in {onBlockPacket(ledgers[n], newBlockOn(key[1], key[2]))} :
            Delivery(n, "block", first.block, first)
    /\ received' = received + 1
    /\ UNCHANGED minted

NextCoin == DeliverSignal \/ DeliverBlock

SpecCoin == Init /\ [][NextCoin]_vars

(***************************************************************************)
(* Nodes that mine in turn: a node makes a block only on a chain whose     *)
(* blocks all came through add, and the block goes to another node before  *)
(* the next one is made.  The chains grow until the ceiling of the trust   *)
(* is met.                                                                 *)
(***************************************************************************)
MaxDepth == 15

\* A NewBlockSignal is delivered to a node whose blocks all have a localId.
MineInTurn ==
    /\ call.type # "signal"
    /\ Cardinality(minted) < MaxDepth
    /\ \E n \in 1..Len(ledgers) :
         /\ \A k \in 1..Len(blocksOf(ledgers[n])) : blocksOf(ledgers[n])[k].local
         /\ \E first \in {onNewBlockSignal(ledgers[n], Cardinality(minted) + 1)} :
              /\ Delivery(n, "signal", first.block, first)
              /\ minted' = minted \cup {Key(first.block)}
    /\ UNCHANGED received

\* The BlockPacket with the block just made is delivered to another node.
Relay ==
    /\ call.type = "signal"
    /\ \E n \in (1..Len(ledgers)) \ {call.node} :
         \E first \in {onBlockPacket(ledgers[n], call.block)} :
            Delivery(n, "block", first.block, first)
    /\ UNCHANGED << minted, received >>

NextLevels == MineInTurn \/ Relay

SpecLevels == Init /\ [][NextLevels]_vars

(***************************************************************************)
(* Properties of the event queue                                           *)
(***************************************************************************)
Popping == Len(dispatched') > Len(dispatched)

Returning == Len(returned') > Len(returned)

\* C1: events are dispatched in the order of their timestamps, whatever the
\* order they were enqueued in: no event is dispatched after one with a
\* later timestamp, and none waits in the queue with a timestamp earlier
\* than that of an event already dispatched.
C1_Ordering ==
    /\ \A i, j \in 1..Len(dispatched) :
         i < j => dispatched[i].timestamp <= dispatched[j].timestamp
    /\ \A i \in 1..Len(dispatched) : \A k \in 1..Len(events) :
         dispatched[i].timestamp <= events[k].timestamp

\* An event enqueued after another one was dispatched before it because its
\* timestamp is earlier.
C1_Witness ==
    \E i, j \in 1..Len(dispatched) :
        /\ i < j
        /\ dispatched[i].uid > dispatched[j].uid
        /\ dispatched[i].timestamp < dispatched[j].timestamp

\* C2: dequeue is single-flight: at most one instance is ever past the guard
\* (running its loop or suspended in it), and a call that arrives while one
\* is (a resume message, a timer callback) returns at once: nothing is
\* popped or dispatched, no error is raised, no second loop starts.
C2_SingleFlight ==
    [][ /\ drains' <= 1
        /\ Len(SelectSeq(sync', LAMBDA f : f = "loop")) + Len(inflight') <= 1
        /\ (sync = <<>> /\ dequeueing /\ inflight' = inflight)
             => UNCHANGED << events, isSorted, dispatched, timestamp, nodes,
                             errors, faults, drains, sync >> ]_vars

\* A resume message was handled while the collaborator was being awaited,
\* and nothing has been popped since.
C2_Witness == wake /\ inflight # <<>> /\ dequeueing /\ sync = <<>>

\* C3: at most one collaborator call is in flight; no event is popped while
\* one is; and when the call returns, the returned state is stored and the
\* returned packets are enqueued in the same step, before any further pop.
C3_OneCallInFlight ==
    [][ /\ Len(inflight') <= 1
        /\ Popping => inflight = <<>>
        /\ Returning =>
             /\ nodes'[Last(returned').event.packet.to] = Last(returned').data
             /\ Len(events') = Len(events) + Len(Last(returned').packets)
             /\ inflight' = <<>>
             /\ ~Popping ]_vars

\* A call is in flight while a timer set by an earlier yield is pending and
\* an earlier call has returned.
C3_Witness == inflight # <<>> /\ timers > 0 /\ Len(returned) > 0

\* What is due when: an event without its identity.
Due(event) ==
    [kind |-> event.kind, timestamp |-> event.timestamp, packet |-> event.packet]

\* C4: when the collaborator returns, the queue grows by exactly one delivery
\* event per returned packet, in their order, each due at T + packet.delay,
\* T being the timestamp of the event being delivered, which the clock
\* still shows.
C4_DeliveryTime ==
    [][ Returning =>
          LET answer == Last(returned')
          IN  /\ timestamp' = answer.event.timestamp
              /\ Len(events') = Len(events) + Len(answer.packets)
              /\ SubSeq(events', 1, Len(events)) = events
              /\ \A i \in 1..Len(answer.packets) :
                   Due(events'[Len(events) + i]) =
                     [ kind |-> "node",
                       timestamp |-> answer.event.timestamp
                                       + answer.packets[i].delay,
                       packet |-> answer.packets[i] ] ]_vars

\* A collaborator has returned two packets, one of them with a delay.
C4_Witness ==
    \E k \in 1..Len(returned) :
        /\ Len(returned[k].packets) = 2
        /\ \E i \in 1..2 : returned[k].packets[i].delay > 0

\* C5: an event is popped only when the run flag is set, so after a pause
\* message none is popped until a resume message; an event in flight when
\* the pause arrives is still completed: its state is stored and its
\* packets are enqueued.
C5_Pause ==
    [][ /\ Popping => (run /\ ~paused)
        /\ (Returning /\ paused) =>
             /\ nodes'[Last(returned').event.packet.to] = Last(returned').data
             /\ Len(events') = Len(events) + Len(Last(returned').packets) ]_vars

\* A delivery was completed during a pause, with a packet to enqueue, and the
\* loop has ended with events left in the queue.
C5_Witness ==
    /\ paused
    /\ ~dequeueing
    /\ events # <<>>
    /\ \E k \in 1..Len(returned) :
         ~returned[k].run /\ Len(returned[k].packets) > 0

\* C6: after a resume message that finds events in the queue, an event is
\* popped, unless a new pause comes first, a fault has left dequeue, or the
\* model's bound on dispatches is reached.
C6_Resume ==
    wake ~> (~wake \/ paused \/ stopped # -1 \/ Len(dispatched) >= MaxDispatched)

\* A resume message came between a yield and its timer callback and has
\* started a new loop.
C6_Witness == wake /\ timers > 0 /\ InLoop /\ Len(dispatched) < MaxDispatched

\* C7: every fault raised by a function event's function or by the
\* collaborator is reported by an error event and ends the run: nothing is
\* dispatched after it.
C7_FaultsAreFatal ==
    /\ errors = faults
    /\ faults > 0 => (stopped # -1 /\ Len(dispatched) = stopped)

\* The addNodes events of a queue.
Admission(queue) ==
    SelectSeq(queue, LAMBDA e : e.kind = "function" /\ e.run = "addNodes")

\* An addNodes event is popped and its call raises nothing.
Admitting ==
    /\ Popping
    /\ dispatched'[Len(dispatched')].kind = "function"
    /\ dispatched'[Len(dispatched')].run = "addNodes"
    /\ faults' = faults

\* What a call of addNodes leaves in the queue: while nodes are missing, an
\* addNodes event at the call's own timestamp plus settings.nodes.delay, whose
\* call will have that timestamp as its own; otherwise no addNodes event.
Readmits ==
    IF Len(nodes') < settings.nodes
    THEN \E e \in Range(Admission(events')) :
            /\ e.timestamp =
                 dispatched'[Len(dispatched')].with.timestamp + settings.nodeDelay
            /\ e.with.timestamp = e.timestamp
    ELSE Admission(events') = <<>>

Discovery(queue) ==
    SelectSeq(queue, LAMBDA e : e.kind = "function" /\ e.run = "newBlock")

\* A newBlock event is popped and its call raises nothing.
Discovering ==
    /\ Popping
    /\ dispatched'[Len(dispatched')].kind = "function"
    /\ dispatched'[Len(dispatched')].run = "newBlock"
    /\ faults' = faults

\* C21: block discovery does not end: a dispatch of newBlock enqueues one
\* delivery of a NewBlockSignal to a node of the store, due at the clock, and
\* one newBlock event at the clock plus settings.block.delay; so from the
\* start on, while no fault has been raised, the queue holds a newBlock event
\* and is not empty.
C21_DiscoveryGoesOn ==
    /\ []((startPc = "done" /\ faults = 0) => Discovery(events) # <<>>)
    /\ [][Discovering =>
            /\ Len(events') = Len(events) + 1
            /\ Len(Discovery(events')) = 1
            /\ \A e \in Range(Discovery(events')) :
                 e.timestamp = timestamp' + settings.blockDelay
            /\ \E e \in Range(events') :
                 /\ e.kind = "node"
                 /\ e.packet.type = "signal"
                 /\ e.packet.to \in 1..Len(nodes)
                 /\ e.timestamp = timestamp'
                 /\ \A old \in Range(events) : old.uid # e.uid]_vars

\* newBlock has run once and has left its next call in the queue.
C21_Witness ==
    /\ Len(Discovery(dispatched)) = 1
    /\ faults = 0
    /\ \E e \in Range(Discovery(events)) :
         e.timestamp = FirstBlockTime + settings.blockDelay

\* The loop of dequeue is left although events are queued and the run is on.
Yielding ==
    /\ dequeueing /\ ~dequeueing'
    /\ LoopCondition(events, run)

\* C22: when the time budget is used up during a drain, the loop is left
\* without popping another event, #dequeueing is cleared and exactly one
\* timer is set; when the timer fires with the run on and no drain going,
\* a drain starts, and it pops the earliest event of the queue; so an event is
\* popped after the break, unless the run is paused, a fault has left
\* dequeue or the model's bound on dispatches is reached.
C22_YieldAndResume ==
    /\ [][Yielding =>
            /\ spent
            /\ timers' = timers + 1
            /\ events' = events
            /\ dispatched' = dispatched
            /\ ~InLoop']_vars
    /\ [][(timers' = timers - 1 /\ run /\ ~dequeueing /\ events # <<>>) =>
            (dequeueing' /\ InLoop' /\ events' = events)]_vars
    /\ [][Popping =>
            \A e \in Range(events) :
               dispatched'[Len(dispatched')].timestamp <= e.timestamp]_vars
    /\ \A k \in 0..MaxDispatched :
         (timers > 0 /\ Len(dispatched) = k) ~>
            \/ Len(dispatched) > k
            \/ paused
            \/ stopped # -1
            \/ Len(dispatched) >= MaxDispatched

\* The loop was left with events queued and the run on: no drain is going
\* and the timer has not fired yet.
C22_Witness ==
    /\ timers = 1
    /\ ~dequeueing
    /\ sync = <<>>
    /\ LoopCondition(events, run)
    /\ Len(dispatched) \in 1..(MaxDispatched - 1)
    /\ stopped = -1

\* C24: a missing consumer is never fatal: without postMessage every draw and
\* log event is skipped and nothing is raised, so the simulation goes on as
\* it does with a consumer.
C24_MissingConsumerNotFatal == ~consumer => faults = 0

\* The deliveries that a step has put into the queue.
Sent == { e \in Range(events') :
            e.kind = "node" /\ \A old \in Range(events) : old.uid # e.uid }

\* The draw events of a step that show one packet.
Shown(packet) ==
    { k \in (Len(flights) + 1)..Len(flights') :
        /\ flights'[k].from = packet.from
        /\ flights'[k].to = packet.to
        /\ flights'[k].delay = packet.delay }

\* C26: a packet that a node sends to itself is delivered at the time it is
\* sent, with delay 0, and no packet draw event is sent for it; for every
\* packet to another node exactly one packet draw event is sent.
C26_SelfAddressed ==
    /\ [][/\ \A e \in Sent :
               e.packet.to = e.packet.from =>
                   /\ e.packet.delay = 0
                   /\ e.timestamp = timestamp'
                   /\ Shown(e.packet) = {}
          /\ \A e \in Sent :
               e.packet.to # e.packet.from =>
                   Cardinality(Shown(e.packet))
                     = Cardinality({ o \in Sent : o.packet = e.packet })
          /\ Len(flights') = Len(flights)
                + Cardinality({ e \in Sent : e.packet.to # e.packet.from })]_vars
    /\ [](\A k \in 1..Len(flights) : flights[k].from # flights[k].to)

\* A collaborator has answered with a packet to its own node and a packet to
\* another node in the same place.
C26_Witness ==
    /\ Len(flights) = 1
    /\ flights[1].delay = 0
    /\ \E k \in 1..Len(returned) :
         \E i, j \in 1..Len(returned[k].packets) :
            /\ returned[k].packets[i].to = returned[k].packets[i].from
            /\ returned[k].packets[j].to # returned[k].packets[j].from

(***************************************************************************)
(* Properties of the ledger                                                *)
(***************************************************************************)
\* C8: containment: a block given to add is in the chain right after the
\* call, and every block ever given to add is in the chain after any later
\* add or tidy.
C8_Containment ==
    (last.called # "none" /\ ~last.threw) =>
        \A block \in added : has(chain, block, 1)

\* C9: no silent loss: the (id, previousId) pairs in the chain after tidy
\* include all the pairs that were in it before.
C9_NoSilentLoss ==
    (last.called # "none" /\ ~last.threw) => Pairs(last.untidy) \subseteq Pairs(chain)

\* C10: adding a block the chain already has changes nothing: the chain is
\* the same tree as before.
C10_ReAddIsNoOp ==
    (last.called = "add" /\ last.known /\ ~last.threw) => chain = last.before

\* C11: idempotence: where a call of add or tidy has returned, a call of
\* tidy returns the same tree (spines, branches, ids, previous ids, trust).
C11_Idempotence ==
    (last.called # "none" /\ ~last.threw) =>
        \E again \in {tidy(chain)} : again.chain = chain /\ ~again.threw

\* A tidy that took several passes and restructured the tree has returned.
C11_Witness ==
    /\ last.called # "none"
    /\ ~last.threw
    /\ last.passes >= 3
    /\ Len(chain.branches) >= 2

C13_TwoRoots ==
    (/\ Len(given) = 2
     /\ given[1].previousId = Undefined
     /\ given[2].previousId = Undefined
     /\ given[1].id # given[2].id) =>
        chain = BlockChain(<<>>, << BlockChain(<<given[1]>>, <<>>),
                                   BlockChain(<<given[2]>>, <<>>) >>)

\* Two different rootless blocks have been added, and tidy was called again.
C13_Witness ==
    /\ Len(given) = 2
    /\ given[1].previousId = Undefined
    /\ given[2].previousId = Undefined
    /\ given[1].id # given[2].id
    /\ last.called = "tidy"

\* C14: after add(X), add(Y) with Y pointing to X, and add(Y) again, the
\* ledger is the spine X, Y with no branches.
C14_OneEdge ==
    (/\ Len(given) = 3
     /\ given[1].previousId = Undefined
     /\ given[2].previousId = given[1].id
     /\ given[3] = given[2]) =>
        chain = BlockChain(<<given[1], given[2]>>, <<>>)

\* X, Y and Y again have been added.
C14_Witness ==
    /\ Len(given) = 3
    /\ given[1].previousId = Undefined
    /\ given[2].previousId = given[1].id
    /\ given[3] = given[2]
    /\ last.called = "add"
    /\ ~last.threw


(***************************************************************************)
(* Properties of the trust aggregation                                     *)
(***************************************************************************)
\* Every node has a root block, and it has trust exactly 1.
RootsTrusted(store) ==
    \A n \in 1..Len(store) :
        /\ store[n].blocks # <<>>
        /\ store[n].blocks[1].trust = FullTrust

\* Every node has the first blocks of the federated spine, as many as are
\* fully trusted, at the start of its own spine.
HoldsPrefix(store, blocks) ==
    \A n \in 1..Len(store) :
        /\ Len(store[n].blocks) >= trustedIndex(blocks)
        /\ \A i \in 1..trustedIndex(blocks) :
               Key(store[n].blocks[i]) = Key(blocks[i])

\* C15: when the root block of every node has trust exactly 1 and the
\* aggregation runs, the spine of every node becomes shorter by the length of
\* the fully trusted prefix of the federated spine, and the first block of
\* every node's spine then has no previous id, also when the whole federated
\* spine is fully trusted.
C15_TrimByTrustedPrefix ==
    ( /\ pass.ran /\ ~pass.threw
      /\ RootsTrusted(pass.before)
      /\ HoldsPrefix(pass.before, pass.federated.blocks) ) =>
        \A n \in 1..Len(ledgers) :
            /\ Len(ledgers[n].blocks) =
                 Len(pass.before[n].blocks) - trustedIndex(pass.federated.blocks)
            /\ ledgers[n].blocks # <<>> =>
                 ledgers[n].blocks[1].previousId = Undefined


\* The entries of globalChainTrust whose block finds `block` in findAll.
matching(table, block) ==
    {k \in 1..Len(table) :
        Matches(block, table[k].block.id, table[k].block.previousId)}

\* What the nodes that have a block with the key of `block` gave it.
assigned(store, block) == average(trustsOf(allBlocks(store), block))

keysOf(ledger) == {Key(block) : block \in Range(blocksOf(ledger))}

\* C17: the federated chain that a pass builds has every block, by id and
\* previous id, that the chain of at least one node has, however many nodes
\* have the same block.
C17_FederatedHasAll ==
    (pass.ran /\ ~pass.threw) =>
        \A n \in 1..Len(pass.before) :
            keysOf(pass.before[n]) \subseteq keysOf(pass.federated)


\* The longest run of blocks of trust 1 at the start of a spine.
trustedRun(blocks) == SubSeq(blocks, 1, trustedIndex(blocks))

\* C18: a pass calls trimBase exactly when the first block of the federated
\* spine has trust exactly 1; it calls it on every node with one list of
\* blocks; what that list removes is the longest run of blocks of trust 1 at
\* the start of the federated spine; after it the chain of no node has a
\* block of that run.
C18_TrimTrustedRun ==
    (pass.ran /\ ~pass.threw) =>
        /\ pass.trimmed <=>
             /\ pass.federated.blocks # <<>>
             /\ pass.federated.blocks[1].trust = FullTrust
        /\ pass.trimmed =>
             /\ \A n \in 1..Len(ledgers) :
                  ledgers[n] = trimBase(pass.held[n], pass.blocks).chain
             /\ Front(pass.blocks) = trustedRun(pass.federated.blocks)
             /\ \A n \in 1..Len(ledgers) :
                  \A block \in Range(trustedRun(pass.federated.blocks)) :
                     ~has(ledgers[n], block, 1)


\* No block of `after` has less trust than the block in its place in `before`.
NoLess(before, after) ==
    /\ Len(blocksOf(after)) = Len(blocksOf(before))
    /\ \A k \in 1..Len(blocksOf(before)) :
         AtLeast(blocksOf(after)[k].trust, blocksOf(before)[k].trust)

\* C19: trust monotonicity: in one pass the trust of no block gets less; every
\* block has after the averaging at least the trust it had before it, in the
\* chains of the nodes and in the federated chain.
C19_TrustNeverDecreases ==
    (pass.ran /\ ~pass.threw) =>
        /\ \A n \in 1..Len(pass.before) : NoLess(pass.before[n], pass.held[n])
        /\ NoLess(pass.merged, pass.federated)


\* C23 as stated: the state of a node changes only by what the collaborator
\* returns for a delivery to that node: such a delivery, with the pass that
\* follows it, leaves the chain of every other node as it was, and no node
\* leaves the store.
C23_OthersUnchanged ==
    [][received' # received =>
         /\ Len(ledgers') = Len(ledgers)
         /\ \A m \in 1..Len(ledgers) :
              m # pass'.node => ledgers'[m] = ledgers[m]]_vars

\* C23, amended: a delivery to a node, with the pass that follows it, leaves
\* the chain of every other node as it was unless the pass trims: then the
\* chain of every node, the others too, is what trimBase makes of it with the
\* blocks of the pass.  No node leaves the store.
C23_OthersOnlyTrimmed ==
    [][(received' # received /\ ~pass'.threw) =>
         /\ Len(ledgers') = Len(ledgers)
         /\ \A m \in 1..Len(ledgers) :
              m # pass'.node =>
                 ledgers'[m] = IF pass'.trimmed
                               THEN trimBase(ledgers[m], pass'.blocks).chain
                               ELSE ledgers[m]]_vars

\* A pass after a delivery to one node has changed the chain of another.
C23_Witness ==
    /\ pass.ran /\ ~pass.threw /\ pass.trimmed
    /\ \E m \in 1..Len(ledgers) :
         m # pass.node /\ ledgers[m] # pass.before[m]

(***************************************************************************)
(* Properties of the random generator                                      *)
(***************************************************************************)
RECURSIVE stateAfter(_, _)
\* The state of a generator that started from the seed, after count draws.
stateAfter(count, number) ==
    IF count = 0 THEN NoState ELSE advance(stateAfter(count - 1, number), number)

\* What has been drawn for one context, in order.
drawnFor(context) ==
    LET mine(value) == value.context = context
    IN  SelectSeq(drawn, mine)

\* C25: the random streams are keyed by context.  A call random(c, max)
\* changes the generator state of context c and of no other context, and
\* the values drawn for a context are, in order, the outputs of the stream
\* that starts from the seed, whatever was drawn for other contexts in
\* between: the outputs are a function of the seed and the sequence of
\* context names alone.
C25_StreamsByContext ==
    /\ [][drawn' # drawn =>
            /\ Len(drawn') = Len(drawn) + 1
            /\ \A context \in Contexts :
                 IF context = drawn'[Len(drawn')].context
                 THEN seeds'[context] # seeds[context]
                 ELSE seeds'[context] = seeds[context]]_vars
    /\ [](\A context \in Contexts :
            /\ seeds[context] = stateAfter(Len(drawnFor(context)), seed)
            /\ \A k \in 1..Len(drawnFor(context)) :
                 drawnFor(context)[k].word = mulberry32(stateAfter(k, seed)))

\* Two draws for "color" with a draw for "position" between them.
C25_Witness ==
    /\ Len(drawn) = 3
    /\ seed # Undefined
    /\ drawn[1].context = "color"
    /\ drawn[2].context = "position"
    /\ drawn[3].context = "color"
    /\ drawn[3].word = mulberry32(stateAfter(2, seed))
    /\ drawn[3].word # drawn[1].word
    /\ drawn[2].word = drawn[1].word

(***************************************************************************)
(* Properties of the ledgers as objects                                    *)
(***************************************************************************)
\* The BlockChain objects in use.
inUse == UNION { chainsIn(objects, roots[r]) : r \in 1..Len(roots) }

\* C27: ledger copies never alias.  No Block object stands in two chains
\* and no BlockChain object is a branch of two chains or of a ledger other
\* than its own; a copy reads as its source did when it was made; and a step
\* that writes through one ledger (add, the graft of rule 3, a trust write,
\* setAsBase, a splice of blocks or of branches) leaves what every other
\* ledger reads as it was, the ledger a block was taken from included.
C27_CopiesNeverAlias ==
    /\ [](\A c, d \in inUse :
            c # d =>
              /\ Range(objects.chains[c].blocks)
                    \cap Range(objects.chains[d].blocks) = {}
              /\ Range(objects.chains[c].branches)
                    \cap Range(objects.chains[d].branches) = {})
    /\ [](\A r, q \in 1..Len(roots) :
            r # q => chainsIn(objects, roots[r])
                        \cap chainsIn(objects, roots[q]) = {})
    /\ [][wrote' # wrote =>
            /\ \A r \in 1..Len(roots) :
                 r # Last(wrote') =>
                    ledgerAt(objects', roots'[r]) = ledgerAt(objects, roots[r])
            /\ Len(roots') > Len(roots) =>
                 \E r \in 1..Len(roots) :
                    ledgerAt(objects', Last(roots')) = ledgerAt(objects, roots[r])]_vars

\* A copy was made, then the copy was written, then the source.
C27_Witness ==
    /\ wrote = <<0, 2, 1>>
    /\ ledgerAt(objects, roots[1]) # ledgerAt(objects, roots[2])
    /\ ledgerAt(objects, roots[1]) # ledgerAt(FirstHeap, 3)
    /\ ledgerAt(objects, roots[2]) # ledgerAt(FirstHeap, 3)

(***************************************************************************)
(* Properties of the deliveries to PrebenCoin                              *)
(***************************************************************************)
\* C28: when process returns from a BlockPacket whose block the chain of the
\* node did not have, the chain has the block and one BlockPacket with the
\* block was returned for every address the node talks to; when the chain
\* had the block, add has not changed the chain and no packet was returned.
C28_FloodingByMembership ==
    (call.type = "block" /\ ~call.threw) =>
        IF call.known
        THEN /\ call.packets = <<>>
             /\ Pairs(call.returned) = Pairs(call.before)
        ELSE /\ has(call.returned, call.block, 1)
             /\ Len(call.packets) = Len(call.book)
             /\ \A k \in 1..Len(call.book) :
                  /\ call.packets[k].to = call.book[k]
                  /\ call.packets[k].from = call.node
                  /\ call.packets[k].block = call.block

\* C29: after a delivery has settled, the chain of the node that processed
\* it is a fixed point of tidy: tidy returns and leaves it as it is.
C29_CanonicalAfterDelivery ==
    (call.type # "none" /\ ~call.threw /\ ~pass.threw) =>
        /\ ~tidy(ledgers[call.node]).threw
        /\ tidy(ledgers[call.node]).chain = ledgers[call.node]

\* The trust of every block of a sequence lies between 0 and 1.
InUnit(levels) ==
    \A k \in 1..Len(levels) :
        /\ AtLeast(levels[k].trust, NoTrust)
        /\ AtLeast(FullTrust, levels[k].trust)

\* C30: the trust of every block lies in [0, 1]: in the chain process
\* returns, in the chain of every node, and in the federated chain of the
\* pass with its averages.
C30_TrustInUnit ==
    /\ InUnit(blocksOf(call.returned))
    /\ \A n \in 1..Len(ledgers) : InUnit(blocksOf(ledgers[n]))
    /\ pass.ran =>
         /\ InUnit(blocksOf(pass.federated))
         /\ \A n \in 1..Len(pass.held) : InUnit(blocksOf(pass.held[n]))

\* A delivery after which a block of the node has met the ceiling of 1, ten
\* sums of .1 being behind it, and the federated chain carries an average
\* strictly between 0 and 1.
C30_Witness ==
    /\ call.type = "block"
    /\ ~call.threw
    /\ Len(call.returned.blocks) >= 12
    /\ \E k \in 1..Len(blocksOf(call.returned)) :
         blocksOf(call.returned)[k].trust = FullTrust
    /\ pass.ran
    /\ \E k \in 1..Len(blocksOf(pass.federated)) :
         /\ blocksOf(pass.federated)[k].trust # NoTrust
         /\ blocksOf(pass.federated)[k].trust # FullTrust
         /\ blocksOf(pass.federated)[k].trust \notin {Fraction(j, 10) : j \in 1..9}

(***************************************************************************)
(* Properties of the fixed point of tidy                                   *)
(***************************************************************************)
\* C31: rule 5 merges and does not discard: where combineBranches finds
\* sibling branches that start with the same block, in the first pass of a
\* tidy, every (id, previousId) pair that was in the tree before the rule is
\* in the tree after it.
C31_MergeKeepsBlocks ==
    last.called # "none" =>
        \E before \in {rule4(rule3(rule2(removeEmptyChain(last.untidy)))).chain} :
            \E after \in {combineBranches(before)} :
                after.effect => Pairs(before) \subseteq Pairs(after.chain)

\* The keys of the blocks that come right after an entry: the next block of
\* the spine, or the first block of every branch attached behind the spine
\* that ends with the entry.
successors(ledger, entry) ==
    LET scope == chainAt(ledger, entry.chainIndexes)
    IN  IF entry.localIndex = Len(scope.blocks)
        THEN {Key(scope.branches[j].blocks[1]) :
                j \in {i \in 1..Len(scope.branches) :
                         Len(scope.branches[i].blocks) > 0}}
        ELSE {Key(scope.blocks[entry.localIndex + 1])}

\* C32: fork completeness: where tidy has returned, every block of the tree
\* that points to the id of an entry's block has its (id, previousId) pair
\* right behind that entry.
C32_ForkCompleteness ==
    (last.called # "none" /\ ~last.threw) =>
        \A b, c \in Range(entries(chain)) :
            c.block.previousId = b.block.id =>
                Key(c.block) \in successors(chain, b)

\* A tidy in which rule 3 grafted a branch has returned a tree where a block
\* is followed by two different blocks, each at the start of its own branch.
C32_Witness ==
    /\ last.called # "none"
    /\ ~last.threw
    /\ connectBlocks(last.untidy).effect
    /\ \E b \in Range(entries(chain)) :
         /\ Cardinality(successors(chain, b)) >= 2
         /\ \E c \in Range(entries(chain)) : c.block.previousId = b.block.id

\* C33: pruned shape: where tidy has returned, no branch below the root is
\* empty, no chain of the tree has exactly one branch, and no two branches
\* of a chain start with blocks of the same id.
C33_PrunedShape ==
    (last.called # "none" /\ ~last.threw) =>
        \A indexes \in Range(branchEntries(chain)) :
            \E scope \in {chainAt(chain, indexes)} :
                /\ indexes # <<>> =>
                      (Len(scope.blocks) > 0 \/ Len(scope.branches) > 0)
                /\ Len(scope.branches) # 1
                /\ \A i, j \in 1..Len(scope.branches) :
                      (/\ i < j
                       /\ Len(scope.branches[i].blocks) > 0
                       /\ Len(scope.branches[j].blocks) > 0) =>
                          scope.branches[i].blocks[1].id #
                              scope.branches[j].blocks[1].id

\* A tidy whose second pass collapsed a branch point with one branch has
\* returned a tree that still branches.
C33_Witness ==
    /\ last.called # "none"
    /\ ~last.threw
    /\ Len(chain.branches) >= 2
    /\ \E second \in {removeEmptyChain(tidyPass(last.untidy).chain).chain} :
          streamlineBranch(second).effect

(***************************************************************************)
(* Further properties of the event queue                                   *)
(***************************************************************************)
\* C34: each pop takes the minimum: the event that a step of dequeue pops
\* was in the queue, its timestamp is at most that of every event that was
\* in the queue with it, and the clock has its timestamp when the handler
\* has run.
C34_PopTakesMinimum ==
    [][ Len(dispatched') > Len(dispatched) =>
          /\ dispatched' = Append(dispatched, Last(dispatched'))
          /\ \E k \in 1..Len(events) : events[k] = Last(dispatched')
          /\ \A k \in 1..Len(events) :
                Last(dispatched').timestamp <= events[k].timestamp
          /\ timestamp' = Last(dispatched').timestamp ]_vars

\* The event popped last was enqueued after one that still waits with a
\* later timestamp: the sort before the pop moved it to the front.
C34_Witness ==
    /\ dispatched # <<>>
    /\ timestamp = Last(dispatched).timestamp
    /\ \E k \in 1..Len(events) :
         /\ events[k].uid < Last(dispatched).uid
         /\ events[k].timestamp > Last(dispatched).timestamp

\* C35: from an empty ledger, after any adds and trimBases of blocks with
\* arbitrary ids and previous ids, the tidy of the last call has reached its
\* fixed point: it did not throw, and one more pass changes nothing.
C35_TidyReachesFixedPoint ==
    last.called # "none" =>
        /\ ~last.threw
        /\ last.passes < MaxReruns
        /\ ~tidyPass(chain).effect

\* C36: the logical clock never goes back: a step never lowers the clock and
\* never puts an event into the queue that is due before the clock of the
\* moment; the events dispatched one after the other have timestamps that
\* never decrease, and neither do the timestamps of the draw events in the
\* order they are sent.
C36_ClockNeverDecreases ==
    /\ [][/\ timestamp' >= timestamp
          /\ \A e \in Range(events') :
               e.uid >= nextUid => e.timestamp >= timestamp']_vars
    /\ [](\A i, j \in 1..Len(dispatched) :
            i <= j => dispatched[i].timestamp <= dispatched[j].timestamp)
    /\ [](\A i, j \in 1..Len(flights) :
            i <= j => flights[i].timestamp <= flights[j].timestamp)

\* Events of different times have been dispatched, the later one after the
\* earlier one; draw events have been sent at different times; and an event
\* put into the queue after the clock moved is waiting.
C36_Witness ==
    /\ Len(dispatched) >= 2
    /\ dispatched[1].timestamp < Last(dispatched).timestamp
    /\ Len(flights) >= 2
    /\ flights[1].timestamp < Last(flights).timestamp
    /\ \E k \in 1..Len(events) :
         events[k].uid > Last(dispatched).uid /\ events[k].timestamp >= timestamp

\* The identities of the events in a list.
Uids(list) == {list[k].uid : k \in 1..Len(list)}

\* C37: every event that was enqueued is either waiting in the queue or was
\* dispatched, never both and never twice, whatever calls of dequeue, pauses,
\* resumes and yields there were; a step takes an event out of the queue only
\* by dispatching it, so an event enqueued while the simulation is paused or
\* has yielded is there when draining starts again.
C37_NoEventLostOrRepeated ==
    /\ [](/\ Uids(events) \cup Uids(dispatched) = 1..(nextUid - 1)
          /\ Uids(events) \cap Uids(dispatched) = {}
          /\ Cardinality(Uids(events)) = Len(events)
          /\ Cardinality(Uids(dispatched)) = Len(dispatched))
    /\ [][/\ \A e \in Range(events) :
               e \in Range(events') \/ (Len(dispatched') = Len(dispatched) + 1
                                         /\ Last(dispatched') = e)
          /\ \A k \in 1..Len(dispatched) : dispatched'[k] = dispatched[k]]_vars

\* A collaborator answered with packets while the simulation was paused, and
\* after the resume one of the events enqueued then has been dispatched.
C37_Witness ==
    /\ dispatched # <<>>
    /\ \E k \in 1..Len(returned) :
         /\ ~returned[k].run
         /\ Last(dispatched).kind = "node"
         /\ Last(dispatched).uid > returned[k].event.uid
         /\ \E i \in 1..Len(returned[k].packets) :
              Last(dispatched).packet = returned[k].packets[i]

\* C38: once a fault was raised inside dequeue (one that its try blocks catch
\* and rethrow: from newBlock, from the collaborator or from the handling of
\* its result; what the async addNodes raises rejects a promise and is never
\* raised inside dequeue) the draining flag stays set: no call of dequeue
\* gets past its first line again (no new instance of the loop starts), and
\* no event is dispatched any more, whatever is in the queue.
C38_FaultStopsDraining ==
    /\ [](stopped # -1 => (dequeueing /\ Len(dispatched) = stopped))
    /\ [][stopped # -1 =>
            /\ dequeueing'
            /\ dispatched' = dispatched
            /\ drains' <= drains
            /\ ~(sync' # <<>> /\ Head(sync') = "loop")]_vars

\* A fault has left dequeue; events are waiting, the run flag is set, nothing
\* is in flight and no timer is pending: nothing will take them out.
C38_Witness ==
    /\ stopped # -1
    /\ events # <<>>
    /\ run
    /\ ~paused
    /\ sync = <<>>
    /\ inflight = <<>>
    /\ timers = 0
    /\ Len(dispatched) < MaxDispatched

(***************************************************************************)
(* A second run, which is never paused and never yields.  It is given the  *)
(* settings of the run at hand and what the collaborators of that run have *)
(* no hand in choosing: the values that random() returned there (the       *)
(* places of the nodes, the finders of the blocks) and, for a packet and a *)
(* node state, the packets that the collaborator answered with.            *)
(***************************************************************************)
\* The queue when the module is loaded.
NoQueue ==
    [ events |-> <<>>, isSorted |-> TRUE, dequeueing |-> FALSE, spent |-> FALSE,
      sync |-> <<>>, drains |-> 0, nextUid |-> 1 ]

\* "start" up to its first enqueue.
TwinStart ==
    [ queue |-> enqueue(NoQueue, FunctionEvent("addNodes", NoContext, 0)),
      store |-> <<>>, clock |-> 0, out |-> <<>>, flying |-> <<>>, back |-> 0,
      pc |-> "enqueueing", halted |-> FALSE ]

\* "start", last statement.
TwinEnqueue(twin) ==
    [twin EXCEPT !.queue = enqueue(@, FunctionEvent("newBlock", NoContext,
                                                    FirstBlockTime)),
                 !.pc = "done"]

\* random("position") for the node with an address, as it was in the run.
PlaceOf(address) ==
    IF address <= Len(nodes) THEN nodes[address].position ELSE 0

\* random("consensus") when the event with this identity was made in the run.
FinderOf(uid) ==
    LET made == { e \in Range(events) \cup Range(dispatched) :
                    e.uid = uid /\ e.kind = "node" }
    IN  IF made = {} THEN 1 ELSE (CHOOSE e \in made : TRUE).packet.to

\* One turn of the loop of dequeue().
TwinPop(twin) ==
    LET popped == Next1(twin.queue.events, twin.queue.isSorted)
        rest == Popped(twin.queue)
        taken == [twin EXCEPT !.clock = popped.timestamp,
                              !.out = Append(@, popped)]
    IN  IF popped.kind = "node"
        THEN [taken EXCEPT !.queue = rest, !.flying = <<popped>>]
        ELSE IF popped.run = "addNodes"
        THEN LET places == AsSeq(
                     [i \in 1..addCount(popped.with, twin.store, settings) |->
                        PlaceOf(Len(twin.store) + i)])
                 added1 == addNodes(popped.with, twin.store, settings, places)
             IN  [taken EXCEPT !.queue = enqueueAll(rest, added1.enqueued),
                               !.store = added1.nodes]
        ELSE LET found1 == newBlock(FinderOf(rest.nextUid), popped.timestamp,
                                    twin.store, settings)
             IN  [taken EXCEPT !.queue = enqueueAll(rest, found1.enqueued),
                               !.halted = found1.fault]

\* dequeue() from the await on, with the answer the collaborator gave in the
\* run to the same packet.
TwinReturn(twin) ==
    LET address == twin.flying[1].packet.to
    IN  [twin EXCEPT
            !.flying = <<>>,
            !.back = @ + 1,
            !.store = IF address <= Len(@)
                      THEN update(@, processed(@[address])) ELSE @,
            !.queue = enqueueAll(@, deliveries(returned[twin.back + 1].packets,
                                               twin.clock))]

\* The second run up to as many dispatches and answers as the run has seen.
RECURSIVE TwinRun(_, _)
TwinRun(twin, fuel) ==
    IF fuel = 0 \/ twin.halted THEN twin
    ELSE IF twin.flying # <<>>
    THEN IF twin.pc = "enqueueing"
         THEN Bind(TwinEnqueue(twin), LAMBDA next : TwinRun(next, fuel - 1))
         ELSE IF twin.back < Len(returned)
         THEN Bind(TwinReturn(twin), LAMBDA next : TwinRun(next, fuel - 1))
         ELSE twin
    ELSE IF Len(twin.out) >= Len(dispatched) THEN twin
    ELSE IF twin.queue.events = <<>>
    THEN IF twin.pc = "enqueueing"
         THEN Bind(TwinEnqueue(twin), LAMBDA next : TwinRun(next, fuel - 1))
         ELSE twin
    ELSE Bind(TwinPop(twin), LAMBDA next : TwinRun(next, fuel - 1))

Twin == TwinRun(TwinStart, Len(dispatched) + Len(returned) + 1)

\* C39: pauses, resumes and yields only delay: whatever messages and yields
\* there were, the run has dispatched the events that the run without any of
\* them dispatches in its first steps, the same events in the same order;
\* and unless a fault has ended it, it has the same clock and the same node
\* states and, once "start" is through, the same events waiting.
C39_SchedulesOnlyDelay ==
    startPc \in {"enqueueing", "done"} =>
        \E twin \in {Twin} :
            /\ twin.out = dispatched
            /\ twin.back = Len(returned)
            /\ stopped = -1 =>
                 /\ twin.store = nodes
                 /\ twin.clock = timestamp
                 /\ (startPc = "done" /\ twin.pc = "done") =>
                      SortByTimestamp(twin.queue.events) = SortByTimestamp(events)

\* A collaborator answered during a pause, the simulation was resumed, the
\* loop has yielded and its timer is pending, and three events or more were
\* dispatched.
C39_Witness ==
    /\ \E k \in 1..Len(returned) : ~returned[k].run
    /\ run
    /\ timers > 0
    /\ Len(dispatched) >= 3
    /\ Len(returned) >= 2
    /\ stopped = -1

(***************************************************************************)
(* Further properties of the nodes' ledgers                                *)
(***************************************************************************)
\* C40: trimming is permanent: a block that the trimBase of an aggregation
\* pass has taken out of the ledgers of the nodes is in no node's ledger at
\* any later time, also when a BlockPacket that carries it is delivered
\* after the trim.
C40_TrimmingIsPermanent == gone \cap Ids(ledgers) = {}

====
